---- MODULE Spec2Model ----
(***************************************************************************)
(* Model of LdDl/esia-potato: the CryptoPro container reader               *)
(* (cryptopro/extract.go) and its helpers.                                 *)
(*                                                                         *)
(* Byte strings are sequences of 0..255.  The external primitives          *)
(* (Streebog-256, GOST 28147-89, the GOST R 34.10 curve arithmetic) are    *)
(* library code; they are replaced by small deterministic stand-ins that   *)
(* keep the sizes and the algebraic shape the callers rely on: a 32-byte   *)
(* digest, an 8-byte block permutation under a 32-byte key, a public       *)
(* point whose X coordinate is shared by k and q-k.  The subgroup orders   *)
(* q are small primes instead of 256-bit primes; big.Int values are kept   *)
(* as residues modulo q, which is all that unmaskKey uses of them.         *)
(***************************************************************************)
EXTENDS Integers, Sequences, FiniteSets, TLC

VARIABLES
    fs,         \* container directory: file name -> bytes, or NoFile
    password,   \* the password handed to ExtractKey
    wrapPw,     \* the password the container was wrapped with
    container,  \* the *Container returned by OpenContainer, or Nil
    pc,         \* position of the running scenario
    result,     \* what the last operation returned
    reads,      \* file names read so far, in order
    kdf,        \* locals of the running cpkdf call
    fn,         \* argument and result of the pure helper being exercised
    signer,     \* the *Signer returned by NewSigner, or Nil
    calls       \* locals of the Sign calls in progress, one record per caller

vars == <<fs, password, wrapPw, container, pc, result, reads, kdf, fn, signer, calls>>

\* Go's nil: for a pointer to a struct, and for a byte slice (no byte is -1)
Nil == [nil |-> TRUE]
NilBytes == <<-1>>
\* a file that does not exist
NoFile == <<-2>>

(***************************************************************************)
(* Byte-string helpers                                                     *)
(***************************************************************************)
Zeros(n) == [i \in 1..n |-> 0]

\* s[from:to] in Go's 0-based half-open notation
Slice(s, from, to) == [i \in 1..(to - from) |-> s[from + i]]

\* utils.ReverseBytes: a fresh slice with result[i] = b[len-1-i]
ReverseBytes(b) == [i \in 1..Len(b) |-> b[Len(b) + 1 - i]]

\* utils.ReverseBytesInPlace: swap b[i], b[j] while i < j (0-based i, j)
RECURSIVE SwapLoop(_, _, _)
SwapLoop(b, i, j) ==
    IF i < j
    THEN SwapLoop([b EXCEPT ![i + 1] = b[j + 1], ![j + 1] = b[i + 1]], i + 1, j - 1)
    ELSE b

\* faulty variant of ReverseBytesInPlace: only the outermost pair is swapped
ReverseBytesInPlace_OneSwap(b) ==
    IF Len(b) >= 2 THEN [b EXCEPT ![1] = b[Len(b)], ![Len(b)] = b[1]] ELSE b

ReverseBytesInPlace(b) == SwapLoop(b, 0, Len(b) - 1)

\* bytes.Index: 0-based index of the first occurrence of sep in s, or -1
MatchAt(s, sep, i) ==
    /\ i + Len(sep) <= Len(s)
    /\ \A k \in 1..Len(sep) : s[i + k] = sep[k]

BytesIndex(s, sep) ==
    LET at == {i \in 0..Len(s) : MatchAt(s, sep, i)}
    IN  IF at = {} THEN -1 ELSE CHOOSE i \in at : \A j \in at : i <= j

\* bytes.Contains
BytesContains(s, sep) == BytesIndex(s, sep) # -1

BytesEqual(a, b) == a = b

(***************************************************************************)
(* Errors: an error value is the chain from the outermost wrap to the      *)
(* innermost cause (github.com/pkg/errors keeps the cause, so errors.Is    *)
(* finds a sentinel anywhere in the chain).  A sentinel is identified by   *)
(* its own value; the link that errors.Wrap adds is a fresh value that     *)
(* carries a message and is identical to no sentinel, whatever its text.   *)
(***************************************************************************)
ErrCurveOIDNotFound == "could not find curve OID in header.key"
ErrCurveOIDUnknown == "unknown curve OID"
ErrFingerprintMismatch == "fingerprint mismatch (wrong password?)"
ErrModInverseFailed == "failed to calculate modular inverse"

NoErr == <<>>
NewError(msg) == <<msg>>
WithMessage(msg) == "withMessage: " \o msg
Wrap(err, msg) == <<WithMessage(msg)>> \o err
ErrorsIs(err, target) == \E i \in 1..Len(err) : err[i] = target

(***************************************************************************)
(* External primitives (github.com/ddulesov/gogost), as stand-ins          *)
(***************************************************************************)
HashSize == 32
BlockSize == 8
ScalarSize == 32

\* gost34112012256: digest of everything written since New/Reset.  Each byte b
\* acts on the running state as x |-> 31 x + b + 1 (mod 32749); AbsorbRange
\* composes these maps over data[lo..hi] as a pair <<multiplier, offset>>.
RECURSIVE AbsorbRange(_, _, _)
AbsorbRange(data, lo, hi) ==
    IF lo > hi THEN <<1, 0>>
    ELSE IF lo = hi THEN <<31, data[lo] + 1>>
    ELSE LET mid == (lo + hi) \div 2
             l == AbsorbRange(data, lo, mid)
             r == AbsorbRange(data, mid + 1, hi)
         IN  <<(r[1] * l[1]) % 32749, (r[1] * l[2] + r[2]) % 32749>>

Streebog256(data) ==
    LET f == AbsorbRange(data, 1, Len(data))
        a == (f[1] * 7 + f[2]) % 32749
    IN  [k \in 1..HashSize |-> (a * k + k * k + (a \div 256)) % 256]

\* gost28147 block cipher under SboxIdtc26gost28147paramZ: one 8-byte block
BlockDecrypt(key, blk) == [j \in 1..BlockSize |-> (blk[j] + 256 - key[j] + 256 - key[j + 8]) % 256]
BlockEncrypt(key, blk) == [j \in 1..BlockSize |-> (blk[j] + key[j] + key[j + 8]) % 256]

\* (*ECBEncrypter).CryptBlocks on whole blocks, used only to build wrapped containers
ECBEncrypt(key, data) ==
    [i \in 1..Len(data) |->
        BlockEncrypt(key, Slice(data, ((i - 1) \div BlockSize) * BlockSize,
                                      ((i - 1) \div BlockSize) * BlockSize + BlockSize))[((i - 1) % BlockSize) + 1]]

(***************************************************************************)
(* math/big on residues                                                    *)
(***************************************************************************)
\* new(big.Int).SetBytes(b) reduced modulo q (big-endian input)
RECURSIVE SetBytesModLoop(_, _, _, _)
SetBytesModLoop(acc, b, i, q) ==
    IF i > Len(b) THEN acc
    ELSE SetBytesModLoop((acc * 256 + b[i]) % q, b, i + 1, q)

SetBytesMod(b, q) == SetBytesModLoop(0, b, 1, q)

\* (*big.Int).IsZero of SetBytes(b)
BytesAreZero(b) == \A i \in 1..Len(b) : b[i] = 0

\* (*big.Int).ModInverse(g, n) for 0 <= g < n: the inverse, which lies in
\* 1..n-1, or 0 for Go's nil result when gcd(g, n) # 1
ModInverse(g, n) ==
    IF \E x \in 1..(n - 1) : (g * x) % n = 1
    THEN CHOOSE x \in 1..(n - 1) : (g * x) % n = 1
    ELSE 0

\* (*big.Int).Bytes(): minimal big-endian bytes, empty for 0
RECURSIVE BigBytes(_)
BigBytes(n) == IF n = 0 THEN <<>> ELSE Append(BigBytes(n \div 256), n % 256)

\* gost3410 pad(): left-pad with zeros to size
Pad(b, size) == Zeros(size - Len(b)) \o b

(***************************************************************************)
(* cpkdf (extract.go:194-293).  The hash object h is the buffer of bytes   *)
(* written since New or Reset; hash.Hash.Write never returns an error, so  *)
(* the error returns of cpkdf are never taken.  The locals are kept in a   *)
(* record so that the same code runs as one call (cpkdf) and step by step  *)
(* (the Kdf actions).                                                      *)
(***************************************************************************)
\* a ^ b on bytes, bit by bit
Bit(a, k) == (a \div k) % 2
Xor(a, b) ==
      ((Bit(a, 1) + Bit(b, 1)) % 2)
    + ((Bit(a, 2) + Bit(b, 2)) % 2) * 2
    + ((Bit(a, 4) + Bit(b, 4)) % 2) * 4
    + ((Bit(a, 8) + Bit(b, 8)) % 2) * 8
    + ((Bit(a, 16) + Bit(b, 16)) % 2) * 16
    + ((Bit(a, 32) + Bit(b, 32)) % 2) * 32
    + ((Bit(a, 64) + Bit(b, 64)) % 2) * 64
    + ((Bit(a, 128) + Bit(b, 128)) % 2) * 128

HashNew == <<>>
HashWrite(h, p) == h \o p
HashSum(h) == Streebog256(h)
HashReset(h) == <<>>

KdfMagic == <<68, 69, 78, 69, 70, 72, 48, 50, 56, 46, 55, 54, 48, 50, 52, 54, 55, 56, 53, 46, 73, 85, 69, 70, 72, 87, 85, 73, 79, 46, 69, 70>>

IterEmpty == 2
IterPassword == 2000

\* faulty variant of ExpandPin: the password bytes are packed, not spread
ExpandPin_Packed(pw) == pw

\* lines 200-207
ExpandPin(pw) ==
    IF Len(pw) > 0
    THEN [i \in 1..(Len(pw) * 4) |-> IF (i - 1) % 4 = 0 THEN pw[((i - 1) \div 4) + 1] ELSE 0]
    ELSE <<>>

\* c right-padded with zeros to bs bytes (lines 223-225, 256-258, 285-287)
PadBlock(c, bs) == IF Len(c) < bs THEN c \o Zeros(bs - Len(c)) ELSE c

\* for j < len(c): m[j] = c[j] ^ x, the rest of m untouched
XorInto(m, c, x) == [j \in 1..Len(m) |-> IF j <= Len(c) THEN Xor(c[j], x) ELSE m[j]]

\* lines 197-233: everything before the stage-2 loop
KdfStart(pw, salt) ==
    LET bs == HashSize * 2
        pin == ExpandPin(pw)
        h1 == HashWrite(HashNew, salt)
        h2 == IF Len(pin) > 0 THEN HashWrite(h1, pin) ELSE h1
    IN  [ pw |-> pw, salt |-> salt, pin |-> pin,
          hashResult |-> HashSum(h2),
          h |-> HashReset(h2),
          c |-> PadBlock(KdfMagic, bs),
          m0 |-> Zeros(64), m1 |-> Zeros(64),
          iterations |-> IF Len(pw) > 0 THEN IterPassword ELSE IterEmpty,
          i |-> 0, key |-> <<>>, err |-> NoErr ]

\* faulty variant of KdfIter: the seed hash is written once, after m0 only
KdfIter_SeedOnce(st) ==
    LET bs == HashSize * 2
        m0 == XorInto(st.m0, st.c, 54)
        m1 == XorInto(st.m1, st.c, 92)
        h3 == HashWrite(HashWrite(HashWrite(st.h, m0), st.hashResult), m1)
    IN  [st EXCEPT !.m0 = m0, !.m1 = m1,
                   !.c = PadBlock(HashSum(h3), bs),
                   !.h = HashReset(h3),
                   !.i = st.i + 1]

\* lines 236-260: one pass of the loop body
KdfIter(st) ==
    LET bs == HashSize * 2
        m0 == XorInto(st.m0, st.c, 54)
        m1 == XorInto(st.m1, st.c, 92)
        h4 == HashWrite(HashWrite(HashWrite(HashWrite(st.h, m0), st.hashResult), m1), st.hashResult)
    IN  [st EXCEPT !.m0 = m0, !.m1 = m1,
                   !.c = PadBlock(HashSum(h4), bs),
                   !.h = HashReset(h4),
                   !.i = st.i + 1]

\* faulty variant of KdfFinish: the padded block c is handed back in place of
\* the final hash
KdfFinish_ReturnsC(st) ==
    LET bs == HashSize * 2
        m0 == XorInto(st.m0, st.c, 54)
        m1 == XorInto(st.m1, st.c, 92)
        h3 == HashWrite(HashWrite(HashWrite(st.h, Slice(m0, 0, 32)), st.salt), Slice(m1, 0, 32))
        h4 == IF Len(st.pin) > 0 THEN HashWrite(h3, st.pin) ELSE h3
        c == PadBlock(HashSum(h4), bs)
    IN  [st EXCEPT !.m0 = m0, !.m1 = m1, !.c = c, !.h = HashReset(h4),
                   !.key = c, !.err = NoErr]

\* lines 262-292: stages 3 and 4
KdfFinish(st) ==
    LET bs == HashSize * 2
        m0 == XorInto(st.m0, st.c, 54)
        m1 == XorInto(st.m1, st.c, 92)
        h3 == HashWrite(HashWrite(HashWrite(st.h, Slice(m0, 0, 32)), st.salt), Slice(m1, 0, 32))
        h4 == IF Len(st.pin) > 0 THEN HashWrite(h3, st.pin) ELSE h3
        c == PadBlock(HashSum(h4), bs)
        h5 == HashWrite(HashReset(h4), Slice(c, 0, 32))
    IN  [st EXCEPT !.m0 = m0, !.m1 = m1, !.c = c, !.h = h5,
                   !.key = HashSum(h5), !.err = NoErr]

\* the loop of lines 236-260 run to its end: n passes from st.  The first half
\* is computed before the second starts (the test on its counter), which keeps
\* the evaluation shallow.
RECURSIVE KdfLoop(_, _)
KdfLoop(st, n) ==
    IF n = 0 THEN st
    ELSE IF n = 1 THEN KdfIter(st)
    ELSE LET half == KdfLoop(st, n \div 2)
         IN  IF half.i >= 0 THEN KdfLoop(half, n - (n \div 2)) ELSE half

cpkdf(pw, salt) ==
    LET st0 == KdfStart(pw, salt)
        fin == KdfFinish(KdfLoop(st0, st0.iterations))
    IN  [key |-> fin.key, err |-> fin.err]

(***************************************************************************)
(* Inputs of the model                                                     *)
(***************************************************************************)
\* []byte(password) for the passwords "" and "1"
Passwords == {<<>>, <<49>>}
TheSalt == <<170, 187, 204, 221>>

\* cpkdf on the inputs above, computed once; any other input is computed on demand
cpkdfTable == {<<pw, TheSalt, cpkdf(pw, TheSalt)>> : pw \in Passwords}
cpkdfCached(pw, salt) ==
    IF \E t \in cpkdfTable : t[1] = pw /\ t[2] = salt
    THEN (CHOOSE t \in cpkdfTable : t[1] = pw /\ t[2] = salt)[3]
    ELSE cpkdf(pw, salt)

(***************************************************************************)
(* Curve tables (extract.go:27-59)                                         *)
(***************************************************************************)
\* gost3410 curve descriptors: Q is the subgroup order (a small prime here), A
\* the parameter the stand-in point arithmetic reads.  The XchA and XchB sets
\* carry the parameters of CryptoPro-A and CryptoPro-C, as in gogost.
CurveCryptoProA == [Name |-> "id-GostR3410-2001-CryptoPro-A-ParamSet", Q |-> 251, A |-> 3]
CurveCryptoProB == [Name |-> "id-GostR3410-2001-CryptoPro-B-ParamSet", Q |-> 241, A |-> 5]
CurveCryptoProC == [Name |-> "id-GostR3410-2001-CryptoPro-C-ParamSet", Q |-> 239, A |-> 7]
CurveCryptoProXchA == [CurveCryptoProA EXCEPT !.Name = "id-GostR3410-2001-CryptoPro-XchA-ParamSet"]
CurveCryptoProXchB == [CurveCryptoProC EXCEPT !.Name = "id-GostR3410-2001-CryptoPro-XchB-ParamSet"]
CurveTc26A == [Name |-> "id-tc26-gost-3410-12-256-paramSetA", Q |-> 233, A |-> 11]

\* faulty variant of CurveOID: the CryptoPro-XchA descriptor is not registered
CurveOID_WithoutXchA ==
    "1.2.643.7.1.2.1.1.1" :> CurveTc26A @@
    "1.2.643.2.2.35.1" :> CurveCryptoProA @@
    "1.2.643.2.2.35.2" :> CurveCryptoProB @@
    "1.2.643.2.2.35.3" :> CurveCryptoProC @@
    "1.2.643.2.2.36.1" :> CurveCryptoProXchB

CurveOID ==
    "1.2.643.7.1.2.1.1.1" :> CurveTc26A @@
    "1.2.643.2.2.35.1" :> CurveCryptoProA @@
    "1.2.643.2.2.35.2" :> CurveCryptoProB @@
    "1.2.643.2.2.35.3" :> CurveCryptoProC @@
    "1.2.643.2.2.36.0" :> CurveCryptoProXchA @@
    "1.2.643.2.2.36.1" :> CurveCryptoProXchB

oidPatterns ==
    "1.2.643.2.2.35.1" :> <<6, 7, 42, 133, 3, 2, 2, 35, 1>> @@
    "1.2.643.2.2.35.2" :> <<6, 7, 42, 133, 3, 2, 2, 35, 2>> @@
    "1.2.643.2.2.35.3" :> <<6, 7, 42, 133, 3, 2, 2, 35, 3>> @@
    "1.2.643.2.2.36.0" :> <<6, 7, 42, 133, 3, 2, 2, 36, 0>> @@
    "1.2.643.2.2.36.1" :> <<6, 7, 42, 133, 3, 2, 2, 36, 1>> @@
    "1.2.643.7.1.2.1.1.1" :> <<6, 8, 42, 133, 3, 7, 1, 2, 1, 1, 1>> @@
    "1.2.643.7.1.2.1.1.2" :> <<6, 8, 42, 133, 3, 7, 1, 2, 1, 1, 2>>

\* the keys of oidPatterns in the order the literal lists them
oidPatternKeys ==
    << "1.2.643.2.2.35.1", "1.2.643.2.2.35.2", "1.2.643.2.2.35.3",
       "1.2.643.2.2.36.0", "1.2.643.2.2.36.1",
       "1.2.643.7.1.2.1.1.1", "1.2.643.7.1.2.1.1.2" >>

\* `for oid, pattern := range oidPatterns`: Go leaves the iteration order of a
\* map unspecified and starts each range at a random position.  The orders
\* taken here are the rotations of the literal's order: every key can come first.
Rotate(seq, k) == [i \in 1..Len(seq) |-> seq[((i - 1 + k) % Len(seq)) + 1]]
MapRangeOrders == {Rotate(oidPatternKeys, k) : k \in 0..(Len(oidPatternKeys) - 1)}

\* findCurveOID (extract.go:338-346) under one iteration order of the map
findCurveOID(header, order) ==
    LET hits == {i \in 1..Len(order) : BytesContains(header, oidPatterns[order[i]])}
    IN  IF hits = {} THEN ""
        ELSE order[CHOOSE i \in hits : \A j \in hits : i <= j]

\* faulty variant of findFingerprint: the bound test is idx+10 < len(header)
findFingerprint_StrictBound(header, tag) ==
    LET idx == BytesIndex(header, <<tag, 8>>)
    IN  IF idx # -1 /\ idx + 10 < Len(header)
        THEN Slice(header, idx + 2, idx + 10)
        ELSE NilBytes

\* faulty variant of findFingerprint: the slice starts at the length byte
findFingerprint_FromLengthByte(header, tag) ==
    LET idx == BytesIndex(header, <<tag, 8>>)
    IN  IF idx # -1 /\ idx + 10 <= Len(header)
        THEN Slice(header, idx + 1, idx + 9)
        ELSE NilBytes

\* findFingerprint (extract.go:348-356)
findFingerprint(header, tag) ==
    LET idx == BytesIndex(header, <<tag, 8>>)
    IN  IF idx # -1 /\ idx + 10 <= Len(header)
        THEN Slice(header, idx + 2, idx + 10)
        ELSE NilBytes

(***************************************************************************)
(* gost3410 keys (external), on residues modulo q                          *)
(***************************************************************************)
Mode2001 == 32

\* gost3410.NewPrivateKey: raw is little-endian; the key is kept as its residue
NewPrivateKey(curve, mode, raw) ==
    IF Len(raw) # mode
    THEN [prv |-> Nil, err |-> NewError("Invalid private key length")]
    ELSE IF BytesAreZero(raw)
    THEN [prv |-> Nil, err |-> NewError("Zero private key")]
    ELSE [prv |-> [C |-> curve, Mode |-> mode, Key |-> SetBytesMod(ReverseBytes(raw), curve.Q)],
          err |-> NoErr]

\* coordinates of Key * G: X is the same for k and q - k, Y tells them apart
PointX(curve, k) == (k * k * curve.A) % curve.Q
PointY(curve, k) == (k * curve.A + 1) % curve.Q

\* (*PrivateKey).PublicKey followed by (*PublicKey).Raw: reverse(pad(Y) || pad(X))
PublicKeyRaw(prv) ==
    IF prv.Key = 0
    THEN [raw |-> NilBytes, err |-> NewError("Bad degree value")]
    ELSE [raw |-> ReverseBytes(Pad(BigBytes(PointY(prv.C, prv.Key)), prv.Mode)
                               \o Pad(BigBytes(PointX(prv.C, prv.Key)), prv.Mode)),
          err |-> NoErr]

(***************************************************************************)
(* gost28147ECBDecrypt and unmaskKey (extract.go:295-336)                  *)
(***************************************************************************)
\* CryptBlocks slices src[i:i+8] and dst[i:i+8] for i = 0, 8, ... < len(src):
\* with a length that is no multiple of 8 the last slice runs past the
\* buffers, whose capacity is their length, and the Go runtime panics.
gost28147ECBDecrypt(key, data) ==
    IF Len(data) % BlockSize # 0
    THEN [panic |-> TRUE, out |-> NilBytes]
    ELSE [panic |-> FALSE,
          out |-> [i \in 1..Len(data) |->
                    BlockDecrypt(key, Slice(data, ((i - 1) \div BlockSize) * BlockSize,
                                                  ((i - 1) \div BlockSize) * BlockSize + BlockSize))
                        [((i - 1) % BlockSize) + 1]]]

\* faulty variant of unmaskKey: the result is not reversed
unmaskKey_NoReverse(encrypted, mask, curve) ==
    LET maskCopy == ReverseBytesInPlace(mask)
        pk == SetBytesMod(encrypted, curve.Q)
        m == SetBytesMod(maskCopy, curve.Q)
        mInv == ModInverse(m, curve.Q)
    IN  IF mInv = 0
        THEN [key |-> NilBytes, err |-> NewError(ErrModInverseFailed)]
        ELSE LET raw == (pk * mInv) % curve.Q
                 res == BigBytes(raw)
                 padded == IF Len(res) < ScalarSize THEN Pad(res, ScalarSize) ELSE res
             IN  [key |-> padded, err |-> NoErr]

\* faulty variant of unmaskKey: the mask is read without being reversed
unmaskKey_MaskNotReversed(encrypted, mask, curve) ==
    LET pk == SetBytesMod(encrypted, curve.Q)
        m == SetBytesMod(mask, curve.Q)
        mInv == ModInverse(m, curve.Q)
    IN  IF mInv = 0
        THEN [key |-> NilBytes, err |-> NewError(ErrModInverseFailed)]
        ELSE LET raw == (pk * mInv) % curve.Q
                 res == BigBytes(raw)
                 padded == IF Len(res) < ScalarSize THEN Pad(res, ScalarSize) ELSE res
             IN  [key |-> ReverseBytesInPlace(padded), err |-> NoErr]

unmaskKey(encrypted, mask, curve) ==
    LET maskCopy == ReverseBytesInPlace(mask)
        pk == SetBytesMod(encrypted, curve.Q)
        m == SetBytesMod(maskCopy, curve.Q)
        mInv == ModInverse(m, curve.Q)
    IN  IF mInv = 0
        THEN [key |-> NilBytes, err |-> NewError(ErrModInverseFailed)]
        ELSE LET raw == (pk * mInv) % curve.Q
                 res == BigBytes(raw)
                 padded == IF Len(res) < ScalarSize THEN Pad(res, ScalarSize) ELSE res
             IN  [key |-> ReverseBytesInPlace(padded), err |-> NoErr]

(***************************************************************************)
(* encoding/asn1.Unmarshal into a struct of n OCTET STRING fields          *)
(* (maskData: 3, primaryData: 1).  Lengths are read in DER's short form and *)
(* in the long form of one or two length octets; no input of the model is  *)
(* 65536 bytes long, so a longer length is a truncated element.            *)
(***************************************************************************)
NoElement == [ok |-> FALSE, tag |-> 0, start |-> 0, end |-> 0]

\* the element whose identifier octet is at off and whose content is the len
\* bytes from 0-based offset start, when the input holds them
ElementAt(b, off, start, len) ==
    IF start + len > Len(b) THEN NoElement
    ELSE [ok |-> TRUE, tag |-> b[off + 1], start |-> start, end |-> start + len]

\* identifier and length octets of the element at 0-based offset off; a
\* length that is not minimally encoded, or indefinite, is an error
ReadElement(b, off) ==
    IF off + 2 > Len(b) THEN NoElement
    ELSE IF b[off + 2] < 128 THEN ElementAt(b, off, off + 2, b[off + 2])
    ELSE IF b[off + 2] = 129
    THEN IF off + 3 > Len(b) THEN NoElement
         ELSE IF b[off + 3] < 128 THEN NoElement
         ELSE ElementAt(b, off, off + 3, b[off + 3])
    ELSE IF b[off + 2] = 130
    THEN IF off + 4 > Len(b) THEN NoElement
         ELSE IF b[off + 3] = 0 THEN NoElement
         ELSE ElementAt(b, off, off + 4, b[off + 3] * 256 + b[off + 4])
    ELSE NoElement

\* the struct's fields in turn; bytes left in the SEQUENCE after the last
\* field are allowed by encoding/asn1
RECURSIVE ParseOctetFields(_, _, _)
ParseOctetFields(inner, off, n) ==
    IF n = 0 THEN [ok |-> TRUE, fields |-> <<>>]
    ELSE LET e == ReadElement(inner, off)
         IN  IF ~e.ok \/ e.tag # 4 THEN [ok |-> FALSE, fields |-> <<>>]
             ELSE LET tail == ParseOctetFields(inner, e.end, n - 1)
                  IN  IF ~tail.ok THEN tail
                      ELSE [ok |-> TRUE, fields |-> <<Slice(inner, e.start, e.end)>> \o tail.fields]

\* asn1.Unmarshal(data, &v): the decoded fields, the bytes after the element, the error
Unmarshal(data, n) ==
    LET top == ReadElement(data, 0)
    IN  IF ~top.ok THEN [fields |-> <<>>, rest |-> <<>>, err |-> NewError("asn1: syntax error")]
        ELSE IF top.tag # 48
        THEN [fields |-> <<>>, rest |-> <<>>, err |-> NewError("asn1: structure error: tags don't match")]
        ELSE LET p == ParseOctetFields(Slice(data, top.start, top.end), 0, n)
             IN  IF ~p.ok
                 THEN [fields |-> <<>>, rest |-> <<>>, err |-> NewError("asn1: structure error")]
                 ELSE [fields |-> p.fields, rest |-> Slice(data, top.end, Len(data)), err |-> NoErr]

\* os.ReadFile on a file of the container directory
ReadFile(dir, name) ==
    IF dir[name] = NoFile
    THEN [data |-> <<>>, err |-> NewError("open " \o name \o ": no such file or directory")]
    ELSE [data |-> dir[name], err |-> NoErr]

(***************************************************************************)
(* OpenContainer and ExtractKey (extract.go:91-192)                        *)
(***************************************************************************)
\* what an operation hands back: the value (or Nil), the error chain, whether
\* the call ended in a runtime panic instead of returning; decrypted (after
\* its reversal), privateKey, publicKey and derivedKey are ExtractKey's locals
\* of these names, as the call leaves them, when it got that far
Returned(val, err) ==
    [val |-> val, err |-> err, panic |-> FALSE,
     decrypted |-> NilBytes, privateKey |-> NilBytes, publicKey |-> NilBytes,
     derivedKey |-> NilBytes]

\* OpenContainer with the map iterated in `order`; dir is the directory at path
OpenContainer(dir, order) ==
    LET hdr == ReadFile(dir, "header.key")
    IN  IF hdr.err # NoErr
        THEN Returned(Nil, Wrap(hdr.err, "failed to read header.key"))
        ELSE LET oid == findCurveOID(hdr.data, order)
             IN  IF oid = "" THEN Returned(Nil, NewError(ErrCurveOIDNotFound))
                 ELSE IF oid \notin DOMAIN CurveOID
                 THEN Returned(Nil, Wrap(NewError(ErrCurveOIDUnknown), "oid: " \o oid))
                 ELSE Returned([Header |-> hdr.data, Curve |-> CurveOID[oid], OID |-> oid], NoErr)

\* faulty variant of VerifyKey: the fingerprint is never compared
VerifyKey_NoComparison(c, privateKey) ==
    LET np == NewPrivateKey(c.Curve, Mode2001, privateKey)
    IN  IF np.err # NoErr
        THEN [Returned(Nil, Wrap(np.err, "failed to create private key")) EXCEPT !.privateKey = privateKey]
        ELSE LET pub == PublicKeyRaw(np.prv)
             IN  IF pub.err # NoErr
                 THEN [Returned(Nil, Wrap(pub.err, "failed to derive public key"))
                          EXCEPT !.privateKey = privateKey]
                 ELSE [Returned([PrivateKey |-> privateKey, PublicKey |-> pub.raw,
                                 CurveOID |-> c.OID, Fingerprint |-> Slice(pub.raw, 0, 8)], NoErr)
                          EXCEPT !.privateKey = privateKey, !.publicKey = pub.raw]

\* lines 166-191: from the unmasked key to the KeyData
VerifyKey(c, privateKey) ==
    LET np == NewPrivateKey(c.Curve, Mode2001, privateKey)
    IN  IF np.err # NoErr
        THEN [Returned(Nil, Wrap(np.err, "failed to create private key")) EXCEPT !.privateKey = privateKey]
        ELSE LET pub == PublicKeyRaw(np.prv)
             IN  IF pub.err # NoErr
                 THEN [Returned(Nil, Wrap(pub.err, "failed to derive public key"))
                          EXCEPT !.privateKey = privateKey]
                 ELSE LET publicKey == pub.raw
                          expectedFP == findFingerprint(c.Header, 138)
                          actualFP == Slice(publicKey, 0, 8)
                      IN  IF expectedFP # NilBytes /\ ~BytesEqual(actualFP, expectedFP)
                          THEN [Returned(Nil, Wrap(NewError(ErrFingerprintMismatch), "expected, got"))
                                   EXCEPT !.privateKey = privateKey, !.publicKey = publicKey]
                          ELSE [Returned([PrivateKey |-> privateKey, PublicKey |-> publicKey,
                                          CurveOID |-> c.OID, Fingerprint |-> actualFP], NoErr)
                                   EXCEPT !.privateKey = privateKey, !.publicKey = publicKey]

\* faulty variant of DecryptKey: the unmasking error is replaced, not wrapped
DecryptKey_DropsCause(c, pw, mask, primary) ==
    LET dk == cpkdfCached(pw, mask.Salt)
    IN  IF dk.err # NoErr THEN Returned(Nil, Wrap(dk.err, "failed to derive key"))
        ELSE LET dec == gost28147ECBDecrypt(dk.key, primary.Value)
             IN  IF dec.panic THEN [Returned(Nil, NoErr) EXCEPT !.panic = TRUE, !.derivedKey = dk.key]
                 ELSE LET decrypted == ReverseBytesInPlace(dec.out)
                          um == unmaskKey(decrypted, mask.Mask, c.Curve)
                      IN  IF um.err # NoErr
                          THEN [Returned(Nil, NewError("failed to unmask key"))
                                   EXCEPT !.decrypted = decrypted, !.derivedKey = dk.key]
                          ELSE [VerifyKey(c, um.key) EXCEPT !.decrypted = decrypted, !.derivedKey = dk.key]

\* lines 148-164: derive, decrypt, reverse, unmask
DecryptKey(c, pw, mask, primary) ==
    LET dk == cpkdfCached(pw, mask.Salt)
    IN  IF dk.err # NoErr THEN Returned(Nil, Wrap(dk.err, "failed to derive key"))
        ELSE LET dec == gost28147ECBDecrypt(dk.key, primary.Value)
             IN  IF dec.panic THEN [Returned(Nil, NoErr) EXCEPT !.panic = TRUE, !.derivedKey = dk.key]
                 ELSE LET decrypted == ReverseBytesInPlace(dec.out)
                          um == unmaskKey(decrypted, mask.Mask, c.Curve)
                      IN  IF um.err # NoErr
                          THEN [Returned(Nil, Wrap(um.err, "failed to unmask key"))
                                   EXCEPT !.decrypted = decrypted, !.derivedKey = dk.key]
                          ELSE [VerifyKey(c, um.key) EXCEPT !.decrypted = decrypted, !.derivedKey = dk.key]

\* (*Container).ExtractKey; dir is the directory at c.Path
ExtractKey(c, dir, pw) ==
    LET masksData == ReadFile(dir, "masks.key")
        primaryKeyData == ReadFile(dir, "primary.key")
        m == Unmarshal(masksData.data, 3)
        p == Unmarshal(primaryKeyData.data, 1)
    IN  IF masksData.err # NoErr THEN Returned(Nil, Wrap(masksData.err, "failed to read masks.key"))
        ELSE IF primaryKeyData.err # NoErr
        THEN Returned(Nil, Wrap(primaryKeyData.err, "failed to read primary.key"))
        ELSE IF m.err # NoErr THEN Returned(Nil, Wrap(m.err, "failed to parse masks.key"))
        ELSE IF p.err # NoErr THEN Returned(Nil, Wrap(p.err, "failed to parse primary.key"))
        ELSE DecryptKey(c, pw,
                        [Mask |-> m.fields[1], Salt |-> m.fields[2], HMAC |-> m.fields[3]],
                        [Value |-> p.fields[1]])

(***************************************************************************)
(* Container directories of the model                                      *)
(***************************************************************************)
MaxScalar == 2
MaxMask == 2

\* n as 32 little-endian bytes, the on-disk form of a scalar or a mask
LE32(n) == ReverseBytes(Pad(BigBytes(n), ScalarSize))

DerOctets(b) == <<4, Len(b)>> \o b
DerSequence(content) == <<48, Len(content)>> \o content
MasksFile(mask, salt, hmac) == DerSequence(DerOctets(mask) \o DerOctets(salt) \o DerOctets(hmac))
PrimaryFile(value) == DerSequence(DerOctets(value))

WrapCurves == {"1.2.643.2.2.35.1", "1.2.643.2.2.35.2", "1.2.643.7.1.2.1.1.1"}

\* the fingerprint CryptoPro stores for scalar k: the first 8 bytes of the public point
FingerprintOf(oid, k) ==
    Slice(PublicKeyRaw([C |-> CurveOID[oid], Mode |-> Mode2001, Key |-> k]).raw, 0, 8)

\* header.key in its variants: what follows the two leading bytes
HeaderKinds == {"fp", "nofp", "shortfp", "otherfp", "twooid", "unknown", "nooid", "missing"}
HeaderFile(kind, oid, k) ==
    LET pat == oidPatterns[oid]
        fp == FingerprintOf(oid, k)
    IN  CASE kind = "fp" -> <<48, 130>> \o pat \o <<138, 8>> \o fp
          [] kind = "nofp" -> <<48, 130>> \o pat \o <<0>>
          [] kind = "shortfp" -> <<48, 130>> \o pat \o <<138, 8>> \o Slice(fp, 0, 7)
          [] kind = "otherfp" -> <<48, 130>> \o pat \o <<138, 8>> \o Zeros(8) \o <<138, 8>> \o fp
          [] kind = "twooid" -> <<48, 130>> \o oidPatterns["1.2.643.7.1.2.1.1.2"] \o pat
                                    \o <<138, 8>> \o fp \o <<0>>
          [] kind = "unknown" -> <<48, 130>> \o oidPatterns["1.2.643.7.1.2.1.1.2"] \o <<138, 8>> \o fp
          [] kind = "nooid" -> <<48, 130, 0, 0, 0>>
          [] kind = "missing" -> NoFile

\* masks.key and primary.key in their variants
FileKinds == {"ok", "nomasks", "noprimary", "badmasks", "badprimary", "trailing",
              "value5", "value0", "value24", "value40",
              "mask0", "maskQ", "mask2Q", "maskEmpty", "mask33", "slot2",
              "badmasksnoprimary", "badboth"}
MaskBytes(kind, q, m) ==
    CASE kind = "mask0" -> LE32(0)
      [] kind = "maskQ" -> LE32(q)
      [] kind = "mask2Q" -> LE32(2 * q)
      [] kind = "maskEmpty" -> <<>>
      [] kind = "mask33" -> LE32(m) \o <<0>>
      [] OTHER -> LE32(m)
ValueBytes(kind, enc) ==
    CASE kind = "value5" -> Slice(enc, 0, 5)
      [] kind = "value0" -> <<>>
      [] kind = "value24" -> Slice(enc, 0, 24)
      [] kind = "value40" -> enc \o Zeros(8)
      [] OTHER -> enc
MasksKeyFile(kind, q, m) ==
    CASE kind = "nomasks" -> NoFile
      [] kind \in {"badmasks", "badmasksnoprimary", "badboth"} -> <<49>> \o Tail(MasksFile(LE32(m), TheSalt, <<1, 2, 3, 4>>))
      [] kind = "trailing" -> MasksFile(LE32(m), TheSalt, <<1, 2, 3, 4>>) \o <<0, 0>>
      [] OTHER -> MasksFile(MaskBytes(kind, q, m), TheSalt, <<1, 2, 3, 4>>)
PrimaryKeyFile(kind, enc) ==
    CASE kind \in {"noprimary", "badmasksnoprimary"} -> NoFile
      [] kind \in {"badprimary", "badboth"} -> <<48, 3, 5, 0>>
      [] kind = "trailing" -> PrimaryFile(enc) \o <<0>>
      [] OTHER -> PrimaryFile(ValueBytes(kind, enc))

\* the directory of a container on curve oid holding scalar k under mask m,
\* wrapped with password pw: primary.key carries the little-endian bytes of
\* k * m mod q encrypted under cpkdf(pw, salt)
ContainerDir(oid, k, m, pw, hkind, fkind) ==
    LET q == CurveOID[oid].Q
        enc == ECBEncrypt(cpkdfCached(pw, TheSalt).key, LE32((k * m) % q))
    IN  [name \in {"header.key", "masks.key", "primary.key", "masks2.key", "primary2.key"} |->
            CASE name = "header.key" -> HeaderFile(hkind, oid, k)
              [] name = "masks.key" -> MasksKeyFile(fkind, q, m)
              [] name = "primary.key" -> PrimaryKeyFile(fkind, enc)
              [] name = "masks2.key" ->
                    IF fkind = "slot2" THEN MasksKeyFile(fkind, q, m) ELSE NoFile
              [] name = "primary2.key" ->
                    IF fkind = "slot2" THEN PrimaryKeyFile(fkind, enc) ELSE NoFile]

(***************************************************************************)
(* The extraction scenario: OpenContainer, then ExtractKey                 *)
(***************************************************************************)
NoKdf == [stage |-> "idle"]
NoFn == [op |-> "none"]
\* no Signer constructed, no Sign call in progress
SignerIdle == signer = Nil /\ calls = <<>>

Init ==
    /\ \E oid \in WrapCurves, k \in 1..MaxScalar, m \in 1..MaxMask, pw \in Passwords,
          hkind \in HeaderKinds, fkind \in FileKinds :
            /\ (hkind = "fp" \/ fkind = "ok")
            /\ fs = ContainerDir(oid, k, m, pw, hkind, fkind)
            /\ wrapPw = pw
    /\ password \in Passwords
    /\ container = Nil
    /\ pc = "start"
    /\ result = Returned(Nil, NoErr)
    /\ reads = <<>>
    /\ kdf = NoKdf
    /\ fn = NoFn
    /\ SignerIdle

\* faulty variant of ExtractKeyReads: the second key slot is read as well
ExtractKeyReads_SecondSlot(dir) ==
    IF dir["masks.key"] = NoFile THEN <<"masks.key">>
    ELSE <<"masks.key", "primary.key", "masks2.key", "primary2.key">>

\* the files ExtractKey reads, in order (lines 121-133)
ExtractKeyReads(dir) ==
    IF dir["masks.key"] = NoFile THEN <<"masks.key">> ELSE <<"masks.key", "primary.key">>

DoOpenContainer ==
    /\ pc = "start"
    /\ \E order \in MapRangeOrders :
        LET r == OpenContainer(fs, order)
        IN  /\ result' = r
            /\ container' = r.val
            /\ pc' = IF r.err = NoErr THEN "opened" ELSE "done"
    /\ reads' = reads \o <<"header.key">>
    /\ UNCHANGED <<fs, password, wrapPw, kdf, fn, signer, calls>>

DoExtractKey ==
    /\ pc = "opened"
    /\ result' = ExtractKey(container, fs, password)
    /\ reads' = reads \o ExtractKeyReads(fs)
    /\ pc' = "done"
    /\ UNCHANGED <<fs, password, wrapPw, container, kdf, fn, signer, calls>>

Next == DoOpenContainer \/ DoExtractKey

Spec == Init /\ [][Next]_vars

(***************************************************************************)
(* Properties of the extraction scenario                                   *)
(***************************************************************************)
\* ExtractKey has returned (or panicked) on an opened container
Extracted == pc = "done" /\ container # Nil

\* the fingerprint header.key stores: the 8 bytes after the first place where
\* 0x8A 0x08 stands, when 8 bytes follow it
PairAt(h, tag, i) == i + 2 <= Len(h) /\ h[i + 1] = tag /\ h[i + 2] = 8
TagAt(h, i) == PairAt(h, 138, i)
StoredFingerprint(h) ==
    IF \E i \in 0..Len(h) : TagAt(h, i) /\ (\A j \in 0..(i - 1) : ~TagAt(h, j)) /\ i + 10 <= Len(h)
    THEN LET first == CHOOSE i \in 0..Len(h) : TagAt(h, i) /\ (\A j \in 0..(i - 1) : ~TagAt(h, j))
         IN  [k \in 1..8 |-> h[first + 2 + k]]
    ELSE NilBytes

PointPrefix(pub) == [k \in 1..8 |-> pub[k]]

\* the integer a little-endian byte string spells, for values below 2^24
RECURSIVE LEValueFrom(_, _)
LEValueFrom(b, i) ==
    IF i > Len(b) THEN 0
    ELSE (IF b[i] = 0 THEN 0 ELSE b[i] * (256 ^ (i - 1))) + LEValueFrom(b, i + 1)
LEValue(b) == LEValueFrom(b, 1)

\* the mask field of the masks.key on disk
MaskOnDisk == Unmarshal(fs["masks.key"], 3).fields[1]

\* C1 as stated: for a password other than the wrapping one, a call that got as
\* far as deriving the public point ends in ErrFingerprintMismatch and returns
\* no KeyData, whatever header.key holds.
C1_WrongPasswordAlwaysMismatch ==
    (Extracted /\ password # wrapPw /\ result.publicKey # NilBytes)
        => (result.val = Nil /\ ErrorsIs(result.err, ErrFingerprintMismatch))

\* C1 amended: for a password other than the wrapping one and a header.key
\* that stores a fingerprint, a derived public point that does not begin with
\* the stored fingerprint ends the call in ErrFingerprintMismatch with no
\* KeyData, and a KeyData that is returned carries the stored fingerprint.
C1_WrongPasswordMismatchWhenStored ==
    (Extracted /\ password # wrapPw /\ result.publicKey # NilBytes
        /\ StoredFingerprint(container.Header) # NilBytes)
        => /\ PointPrefix(result.publicKey) # StoredFingerprint(container.Header)
                => (result.val = Nil /\ ErrorsIs(result.err, ErrFingerprintMismatch))
           /\ result.val # Nil
                => result.val.Fingerprint = StoredFingerprint(container.Header)

C1_Witness ==
    /\ Extracted /\ password # wrapPw
    /\ StoredFingerprint(container.Header) # NilBytes
    /\ result.publicKey # NilBytes
    /\ PointPrefix(result.publicKey) # StoredFingerprint(container.Header)
    /\ ErrorsIs(result.err, ErrFingerprintMismatch)

\* C2: with a stored fingerprint F a KeyData is returned only if the public
\* point begins with F, and a point that does not ends the call in
\* ErrFingerprintMismatch; with no stored fingerprint the derived key is
\* returned without comparison.
C2_FingerprintGate ==
    /\ (Extracted /\ result.val # Nil) => result.publicKey # NilBytes
    /\ (Extracted /\ result.publicKey # NilBytes) =>
         LET F == StoredFingerprint(container.Header)
             P == PointPrefix(result.publicKey)
         IN  IF F # NilBytes
             THEN /\ result.val # Nil => P = F
                  /\ P # F => (result.val = Nil /\ ErrorsIs(result.err, ErrFingerprintMismatch))
                  /\ P = F => (result.val # Nil /\ result.err = NoErr)
             ELSE result.val # Nil /\ result.err = NoErr

C2_Witness ==
    /\ Extracted /\ result.publicKey # NilBytes
    /\ StoredFingerprint(container.Header) = NilBytes
    /\ BytesContains(container.Header, <<138, 8>>)
    /\ result.val # Nil

\* C3: OpenContainer followed by ExtractKey ends with a KeyData or with a
\* returned error, never with an abnormal abort.
C3_ReturnsKeyDataOrError ==
    pc = "done" => (~result.panic /\ ((result.val # Nil) # (result.err # NoErr)))

\* the scalar s with s * M = D (mod q), D the reversed decrypted value and M
\* the reversed mask; 0 when there is none
UnmaskedScalar ==
    LET q == container.Curve.Q
        D == SetBytesMod(result.decrypted, q)
        M == LEValue(MaskOnDisk) % q
    IN  IF \E x \in 1..(q - 1) : (x * M) % q = D
        THEN CHOOSE x \in 1..(q - 1) : (x * M) % q = D
        ELSE 0

\* C4 as stated: on success PrivateKey is the 32-byte big-endian encoding of s,
\* 1 <= s <= q-1.
C4_PrivateKeyBigEndian ==
    (Extracted /\ result.val # Nil) =>
        /\ Len(result.val.PrivateKey) = 32
        /\ UnmaskedScalar >= 1 /\ UnmaskedScalar <= container.Curve.Q - 1
        /\ \A i \in 1..32 : result.val.PrivateKey[i] =
                (IF i >= 30 THEN (UnmaskedScalar \div (256 ^ (32 - i))) % 256 ELSE 0)

\* C4 amended: on success PrivateKey is the 32-byte little-endian encoding of
\* s, 1 <= s <= q-1 (the byte order gost3410.NewPrivateKey reads).
C4_PrivateKeyLittleEndian ==
    (Extracted /\ result.val # Nil) =>
        /\ Len(result.val.PrivateKey) = 32
        /\ UnmaskedScalar >= 1 /\ UnmaskedScalar <= container.Curve.Q - 1
        /\ \A i \in 1..32 : result.val.PrivateKey[i] =
                (IF i <= 3 THEN (UnmaskedScalar \div (256 ^ (i - 1))) % 256 ELSE 0)

C4_Witness ==
    /\ Extracted /\ result.val # Nil
    /\ password = wrapPw
    /\ result.val.PrivateKey[1] = 2

\* C5 as stated: for no header.key does OpenContainer return ErrCurveOIDUnknown.
C5_NeverCurveOIDUnknown == ~ErrorsIs(result.err, ErrCurveOIDUnknown)

\* C5 amended: every key of oidPatterns other than 1.2.643.7.1.2.1.1.2 has a
\* descriptor in CurveOID, and OpenContainer returns ErrCurveOIDUnknown only for
\* a header.key that holds the encoding of 1.2.643.7.1.2.1.1.2, always so when
\* it holds the encoding of no other recognised OID.
C5_UnknownOnlyFor2012B ==
    /\ \A oid \in DOMAIN oidPatterns : oid \in DOMAIN CurveOID \/ oid = "1.2.643.7.1.2.1.1.2"
    /\ ErrorsIs(result.err, ErrCurveOIDUnknown)
         => (pc = "done" /\ container = Nil
             /\ BytesContains(fs["header.key"], <<6, 8, 42, 133, 3, 7, 1, 2, 1, 1, 2>>))
    /\ (pc = "done" /\ fs["header.key"] # NoFile
        /\ \A oid \in DOMAIN oidPatterns :
              BytesContains(fs["header.key"], oidPatterns[oid]) <=> oid = "1.2.643.7.1.2.1.1.2")
         => ErrorsIs(result.err, ErrCurveOIDUnknown)

C5_Witness ==
    /\ pc = "done" /\ ErrorsIs(result.err, ErrCurveOIDUnknown)
    /\ reads = <<"header.key">>

\* C10: ExtractKey's unmasking fails exactly when the reversed mask is 0 modulo
\* q; the error returned then identifies as ErrModInverseFailed and no key
\* bytes and no KeyData come back.
C10_ModInverseFailed ==
    /\ ErrorsIs(result.err, ErrModInverseFailed) => (Extracted /\ result.decrypted # NilBytes)
    /\ (Extracted /\ result.decrypted # NilBytes) =>
         LET noInverse == LEValue(MaskOnDisk) % container.Curve.Q = 0
         IN  /\ ErrorsIs(result.err, ErrModInverseFailed) <=> noInverse
             /\ noInverse => (result.val = Nil /\ result.privateKey = NilBytes)

C10_Witness ==
    /\ Extracted /\ ErrorsIs(result.err, ErrModInverseFailed)
    /\ LEValue(MaskOnDisk) = 2 * container.Curve.Q

(***************************************************************************)
(* The scanners on their own: findFingerprint and findCurveOID applied to  *)
(* header bytes                                                            *)
(***************************************************************************)
MaxHeaderLen == 11
MaxPatterns == 2

\* every byte string of at most n bytes over the given bytes
BytesUpTo(alphabet, n) == UNION {[1..k -> alphabet] : k \in 0..n}

\* headers that carry the encodings of the listed OIDs, in that order
RECURSIVE PatternsOf(_)
PatternsOf(oids) ==
    IF oids = <<>> THEN <<>> ELSE oidPatterns[Head(oids)] \o <<0>> \o PatternsOf(Tail(oids))
OidLists == UNION {[1..k -> DOMAIN oidPatterns] : k \in 0..MaxPatterns}

\* the part of the state the extraction scenario uses, at rest
ContainerIdle ==
    /\ fs = <<>> /\ password = <<>> /\ wrapPw = <<>> /\ container = Nil
    /\ result = Returned(Nil, NoErr) /\ reads = <<>>

ScanInit ==
    /\ ContainerIdle
    /\ SignerIdle
    /\ kdf = NoKdf
    /\ pc = "call"
    /\ \/ \E h \in BytesUpTo({138, 8}, MaxHeaderLen), tag \in {138, 8} :
             fn = [op |-> "findFingerprint", header |-> h, tag |-> tag, ret |-> NilBytes]
       \/ \E oids \in OidLists, cut \in {0, 1} :
             fn = [op |-> "findCurveOID",
                   header |-> LET h == <<48, 130>> \o PatternsOf(oids)
                              IN  Slice(h, 0, Len(h) - 2 * cut),
                   tag |-> 0, ret |-> ""]

CallFindFingerprint ==
    /\ pc = "call" /\ fn.op = "findFingerprint"
    /\ fn' = [fn EXCEPT !.ret = findFingerprint(fn.header, fn.tag)]
    /\ pc' = "ret"
    /\ UNCHANGED <<fs, password, wrapPw, container, result, reads, kdf, signer, calls>>

CallFindCurveOID ==
    /\ pc = "call" /\ fn.op = "findCurveOID"
    /\ \E order \in MapRangeOrders : fn' = [fn EXCEPT !.ret = findCurveOID(fn.header, order)]
    /\ pc' = "ret"
    /\ UNCHANGED <<fs, password, wrapPw, container, result, reads, kdf, signer, calls>>

ScanNext == CallFindFingerprint \/ CallFindCurveOID

SpecScan == ScanInit /\ [][ScanNext]_vars

\* C6: findCurveOID returns the first OID, in the order of the recognised-curves
\* table, whose encoding occurs in the header, and "" when none occurs.
C6_FirstInTableOrder ==
    (pc = "ret" /\ fn.op = "findCurveOID") =>
        LET present == {i \in 1..Len(oidPatternKeys) :
                            BytesContains(fn.header, oidPatterns[oidPatternKeys[i]])}
        IN  IF present = {} THEN fn.ret = ""
            ELSE fn.ret = oidPatternKeys[CHOOSE i \in present : \A j \in present : i <= j]

\* C7: findFingerprint returns the 8 bytes after the first occurrence of
\* (tag, 0x08), and nil when the pair does not occur or fewer than 8 bytes
\* follow its first occurrence.
C7_FingerprintAfterFirstTag ==
    (pc = "ret" /\ fn.op = "findFingerprint") =>
        LET h == fn.header
            firsts == {i \in 0..Len(h) : PairAt(h, fn.tag, i) /\ \A j \in 0..(i - 1) : ~PairAt(h, fn.tag, j)}
        IN  IF \E i \in firsts : i + 10 <= Len(h)
            THEN /\ Len(fn.ret) = 8
                 /\ \A i \in firsts : \A k \in 1..8 : fn.ret[k] = h[i + 2 + k]
            ELSE fn.ret = NilBytes

C7_Witness ==
    /\ pc = "ret" /\ fn.op = "findFingerprint"
    /\ fn.header = <<8, 138, 8, 138, 8, 8, 8, 8, 138, 138, 138>>
    /\ fn.tag = 138
    /\ fn.ret = <<138, 8, 8, 8, 8, 138, 138, 138>>

(***************************************************************************)
(* unmaskKey on its own: the mask applied by the container writer is taken *)
(* off again                                                               *)
(***************************************************************************)
UnmaskCurve == CurveCryptoProA

\* the caller's side: a scalar a masked with b, as the bytes unmaskKey is given
UnmaskInit ==
    /\ ContainerIdle
    /\ SignerIdle
    /\ kdf = NoKdf
    /\ pc = "call"
    /\ \E a \in 1..(UnmaskCurve.Q - 1), b \in 1..(UnmaskCurve.Q - 1) :
          fn = [op |-> "unmaskKey", a |-> a, b |-> b,
                encrypted |-> Pad(BigBytes((a * b) % UnmaskCurve.Q), ScalarSize),
                mask |-> LE32(b),
                ret |-> [key |-> NilBytes, err |-> NoErr]]

CallUnmaskKey ==
    /\ pc = "call" /\ fn.op = "unmaskKey"
    /\ fn' = [fn EXCEPT !.ret = unmaskKey(fn.encrypted, fn.mask, UnmaskCurve)]
    /\ pc' = "ret"
    /\ UNCHANGED <<fs, password, wrapPw, container, result, reads, kdf, signer, calls>>

UnmaskNext == CallUnmaskKey

SpecUnmask == UnmaskInit /\ [][UnmaskNext]_vars

\* C9: for a and b in [1, q-1], ((a*b mod q) * b^-1) mod q = a, and unmaskKey
\* given the big-endian bytes of a*b mod q and the little-endian bytes of b
\* returns, without error, the 32-byte encoding of a (least significant byte
\* first).
C9_UnmaskInvertsMask ==
    (pc = "ret" /\ fn.op = "unmaskKey") =>
        LET q == UnmaskCurve.Q
        IN  /\ \E inv \in 1..(q - 1) :
                  /\ (fn.b * inv) % q = 1
                  /\ ((((fn.a * fn.b) % q) * inv) % q) = fn.a % q
            /\ fn.ret.err = NoErr
            /\ Len(fn.ret.key) = 32
            /\ fn.ret.key[1] = fn.a
            /\ \A i \in 2..32 : fn.ret.key[i] = 0

C9_Witness ==
    /\ pc = "ret" /\ fn.op = "unmaskKey"
    /\ fn.a = 200 /\ fn.b = 250
    /\ fn.encrypted[32] = 51
    /\ fn.ret.key[1] = 200

(***************************************************************************)
(* cpkdf step by step, called more than once on the same inputs            *)
(***************************************************************************)
MaxCalls == 2
KdfPasswords == {<<>>, <<49>>, <<49, 50>>}
KdfSalts == {<<>>, TheSalt}

KdfInit ==
    /\ ContainerIdle
    /\ SignerIdle
    /\ kdf = NoKdf
    /\ pc = "call"
    /\ \E pw \in KdfPasswords, salt \in KdfSalts :
          fn = [op |-> "cpkdf", pw |-> pw, salt |-> salt, keys |-> <<>>]

\* lines 197-233: a call starts with fresh locals
KdfCall ==
    /\ pc = "call" /\ fn.op = "cpkdf" /\ Len(fn.keys) < MaxCalls
    /\ kdf' = [stage |-> "loop", st |-> KdfStart(fn.pw, fn.salt)]
    /\ pc' = "loop"
    /\ UNCHANGED <<fs, password, wrapPw, container, result, reads, fn, signer, calls>>

\* lines 236-260: one pass of the stage-2 loop
KdfStep ==
    /\ pc = "loop" /\ kdf.st.i < kdf.st.iterations
    /\ kdf' = [kdf EXCEPT !.st = KdfIter(@)]
    /\ UNCHANGED <<fs, password, wrapPw, container, result, reads, fn, pc, signer, calls>>

\* lines 262-292: the loop is over; the key is returned and the locals are gone
KdfReturn ==
    /\ pc = "loop" /\ kdf.st.i = kdf.st.iterations
    /\ LET fin == KdfFinish(kdf.st)
       IN  fn' = [fn EXCEPT !.keys = Append(@, [key |-> fin.key, err |-> fin.err])]
    /\ kdf' = NoKdf
    /\ pc' = "call"
    /\ UNCHANGED <<fs, password, wrapPw, container, result, reads, signer, calls>>

KdfNext == KdfCall \/ KdfStep \/ KdfReturn

SpecKDF == KdfInit /\ [][KdfNext]_vars

\* C8: every call of cpkdf returns, without error, a key of exactly 32 bytes,
\* and the calls made with the same password and salt return the same key.
C8_KdfDeterministic32 ==
    fn.op = "cpkdf" =>
        \A i \in 1..Len(fn.keys) :
            /\ fn.keys[i].err = NoErr
            /\ Len(fn.keys[i].key) = 32
            /\ \A k \in 1..Len(fn.keys[i].key) : fn.keys[i].key[k] \in 0..255
            /\ fn.keys[i].key = fn.keys[1].key

C8_Witness ==
    /\ fn.op = "cpkdf" /\ fn.pw = <<49, 50>> /\ fn.salt = TheSalt
    /\ Len(fn.keys) = 2
    /\ pc = "call"

(***************************************************************************)
(* utils.ReverseBytes and utils.ReverseBytesInPlace on a caller's buffer   *)
(***************************************************************************)
MaxBufLen == 4
MaxInPlace == 2

\* b0 is the buffer as the caller filled it, b the buffer it hands to
\* ReverseBytes, r1 = ReverseBytes(b), r2 = ReverseBytes(r1); buf starts as a
\* copy of b0 and is the argument of ReverseBytesInPlace, n times so far
ReverseInit ==
    /\ ContainerIdle
    /\ SignerIdle
    /\ kdf = NoKdf
    /\ pc = "call"
    /\ \E b \in BytesUpTo({0, 1, 255}, MaxBufLen) :
          fn = [op |-> "reverse", b0 |-> b, b |-> b, r1 |-> NilBytes, r2 |-> NilBytes,
                buf |-> b, n |-> 0]

CallReverseBytes ==
    /\ fn.op = "reverse" /\ fn.r1 = NilBytes
    /\ fn' = [fn EXCEPT !.r1 = ReverseBytes(fn.b)]
    /\ UNCHANGED <<fs, password, wrapPw, container, pc, result, reads, kdf, signer, calls>>

CallReverseBytesAgain ==
    /\ fn.op = "reverse" /\ fn.r1 # NilBytes /\ fn.r2 = NilBytes
    /\ fn' = [fn EXCEPT !.r2 = ReverseBytes(fn.r1)]
    /\ UNCHANGED <<fs, password, wrapPw, container, pc, result, reads, kdf, signer, calls>>

CallReverseBytesInPlace ==
    /\ fn.op = "reverse" /\ fn.n < MaxInPlace
    /\ fn' = [fn EXCEPT !.buf = ReverseBytesInPlace(fn.buf), !.n = fn.n + 1]
    /\ UNCHANGED <<fs, password, wrapPw, container, pc, result, reads, kdf, signer, calls>>

ReverseNext == CallReverseBytes \/ CallReverseBytesAgain \/ CallReverseBytesInPlace

SpecReverse == ReverseInit /\ [][ReverseNext]_vars

\* r is b read from its end: r[i] = b[len-1-i]
Mirrored(r, b) == Len(r) = Len(b) /\ \A i \in 1..Len(b) : r[i] = b[Len(b) + 1 - i]

\* C11: ReverseBytes and ReverseBytesInPlace both yield r with r[i] =
\* b[len-1-i], for the empty and the one-byte buffer too; either of them
\* applied twice gives b back; ReverseBytes leaves its argument as it was.
C11_ReverseInvolution ==
    fn.op = "reverse" =>
        /\ fn.b = fn.b0
        /\ fn.r1 # NilBytes => Mirrored(fn.r1, fn.b0)
        /\ fn.r2 # NilBytes => fn.r2 = fn.b0
        /\ fn.n % 2 = 1 => Mirrored(fn.buf, fn.b0)
        /\ fn.n % 2 = 0 => fn.buf = fn.b0

C11_Witness ==
    /\ fn.op = "reverse" /\ fn.b0 = <<0, 1, 255, 1>>
    /\ fn.r1 = <<1, 255, 1, 0>> /\ fn.r2 = fn.b0
    /\ fn.n = 2 /\ fn.buf = fn.b0

(***************************************************************************)
(* Files touched by OpenContainer and ExtractKey                           *)
(***************************************************************************)
\* C20: OpenContainer reads header.key alone and reports ErrCurveOIDNotFound
\* and ErrCurveOIDUnknown with nothing else read; ExtractKey runs on a
\* Container that OpenContainer returned; the files read are header.key,
\* masks.key and primary.key, in that order, never masks2.key or
\* primary2.key, and no file of the directory is ever changed.
C20_FilesTouched ==
    /\ [](/\ \A i \in 1..Len(reads) : reads[i] \in {"header.key", "masks.key", "primary.key"}
          /\ pc = "start" => reads = <<>>
          /\ pc = "opened" => (reads = <<"header.key">> /\ container # Nil)
          /\ (pc = "done" /\ container = Nil) => reads = <<"header.key">>
          /\ (ErrorsIs(result.err, ErrCurveOIDNotFound) \/ ErrorsIs(result.err, ErrCurveOIDUnknown))
                => (reads = <<"header.key">> /\ container = Nil)
          /\ Len(reads) > 1 =>
                /\ container # Nil
                /\ reads \in {<<"header.key", "masks.key">>, <<"header.key", "masks.key", "primary.key">>})
    /\ [][fs' = fs]_vars

C20_Witness ==
    /\ pc = "done" /\ result.val # Nil
    /\ reads = <<"header.key", "masks.key", "primary.key">>
    /\ fs["masks2.key"] # NoFile /\ fs["primary2.key"] # NoFile

(***************************************************************************)
(* Bytes after the top-level DER element of masks.key and primary.key      *)
(***************************************************************************)
\* b is one DER element (short-form length) followed by at least one byte
HasTrailingBytes(b) == Len(b) >= 2 /\ b[1] = 48 /\ b[2] < 128 /\ 2 + b[2] < Len(b)

\* C19: a masks.key or primary.key that is a well-formed top-level DER element
\* followed by trailing bytes makes ExtractKey fail with a parse error, and no
\* KeyData is produced.
C19_TrailingBytesRejected ==
    (Extracted /\ (HasTrailingBytes(fs["masks.key"]) \/ HasTrailingBytes(fs["primary.key"])))
        => (result.val = Nil /\ result.err # NoErr)

(***************************************************************************)
(* encoding/asn1.Marshal as cms.go uses it (DER)                           *)
(***************************************************************************)
\* length octets: short form below 128, else the long form
EncodeLength(n) ==
    IF n < 128 THEN <<n>>
    ELSE IF n < 256 THEN <<129, n>>
    ELSE <<130, n \div 256, n % 256>>

\* identifier octet, length octets, content
TLV(tag, content) == <<tag>> \o EncodeLength(Len(content)) \o content

TagSequence == 48
TagSet == 49
TagContext0 == 160
TagInteger == 2
TagOctetString == 4
TagNull == 5
TagOID == 6
TagUTCTime == 23
TagGeneralizedTime == 24

\* base-128 digits of n, the continuation bit set on all but the last
RECURSIVE Base128Cont(_)
Base128Cont(n) ==
    IF n < 128 THEN <<128 + n>> ELSE Base128Cont(n \div 128) \o <<128 + (n % 128)>>
Base128(n) == IF n < 128 THEN <<n>> ELSE Base128Cont(n \div 128) \o <<n % 128>>

RECURSIVE OIDArcs(_, _)
OIDArcs(oid, i) == IF i > Len(oid) THEN <<>> ELSE Base128(oid[i]) \o OIDArcs(oid, i + 1)
MarshalOID(oid) == TLV(TagOID, Base128(oid[1] * 40 + oid[2]) \o OIDArcs(oid, 3))

\* two's-complement content octets of an integer, minimally encoded
RECURSIVE IntOctets(_)
IntOctets(n) ==
    IF n >= 0 /\ n < 128 THEN <<n>>
    ELSE IF n < 0 /\ n >= -128 THEN <<256 + n>>
    ELSE IntOctets((n - (n % 256)) \div 256) \o <<n % 256>>
MarshalInt(n) == TLV(TagInteger, IntOctets(n))

MarshalOctetString(b) == TLV(TagOctetString, b)

\* asn1.RawValue: FullBytes verbatim when set, else tag, length, Bytes
MarshalRawValue(rv) == IF Len(rv.FullBytes) # 0 THEN rv.FullBytes ELSE TLV(rv.Tag, rv.Bytes)
RawValue(tag, bytes) == [Tag |-> tag, Bytes |-> bytes, FullBytes |-> <<>>]
NullRawValue == RawValue(TagNull, <<>>)

\* time.Time in UTC: UTCTime for the years 1950..2049, GeneralizedTime for the
\* other years up to 9999, an error beyond
TwoDigits(n) == <<48 + ((n \div 10) % 10), 48 + (n % 10)>>
FourDigits(n) == TwoDigits(n \div 100) \o TwoDigits(n % 100)
TimeOfDay(t) ==
    TwoDigits(t.month) \o TwoDigits(t.day) \o TwoDigits(t.hour) \o TwoDigits(t.minute)
        \o TwoDigits(t.second) \o <<90>>
MarshalTime(t) ==
    IF t.year >= 1950 /\ t.year < 2050
    THEN [bytes |-> TLV(TagUTCTime, TwoDigits(t.year % 100) \o TimeOfDay(t)), err |-> NoErr]
    ELSE IF t.year < 0 \/ t.year > 9999
    THEN [bytes |-> NilBytes, err |-> NewError("asn1: structure error: cannot represent time as GeneralizedTime")]
    ELSE [bytes |-> TLV(TagGeneralizedTime, FourDigits(t.year) \o TimeOfDay(t)), err |-> NoErr]

(***************************************************************************)
(* cms.go: OIDs, sentinel errors, the certificate parse of NewSigner       *)
(***************************************************************************)
ErrCertificateParse == "failed to parse certificate"
ErrSignedAttributes == "failed to create signed attributes"
ErrSign == "failed to sign"
ErrMarshalSignedData == "failed to marshal SignedData"

OIDGostR341112256 == <<1, 2, 643, 7, 1, 1, 2, 2>>
OIDGostR341012256 == <<1, 2, 643, 7, 1, 1, 1, 1>>
OIDGostR341012256WithGostR341112256 == <<1, 2, 643, 7, 1, 1, 3, 2>>
OIDData == <<1, 2, 840, 113549, 1, 7, 1>>
OIDSignedData == <<1, 2, 840, 113549, 1, 7, 2>>
OIDAttributeContentType == <<1, 2, 840, 113549, 1, 9, 3>>
OIDAttributeSigningTime == <<1, 2, 840, 113549, 1, 9, 5>>
OIDAttributeMessageDigest == <<1, 2, 840, 113549, 1, 9, 4>>

\* pkix.AlgorithmIdentifier{Algorithm: oid, Parameters: asn1.NullRawValue}
MarshalAlgorithmIdentifier(oid) == TLV(TagSequence, MarshalOID(oid) \o MarshalRawValue(NullRawValue))

\* value of the two's-complement content octets c[from+1 .. to]
RECURSIVE IntValue(_, _, _)
IntValue(c, from, to) ==
    IF to = from + 1 THEN (IF c[to] >= 128 THEN c[to] - 256 ELSE c[to])
    ELSE IntValue(c, from, to - 1) * 256 + c[to]

\* an INTEGER element with content: not empty, minimally encoded
IsInteger(b, e) ==
    /\ e.ok /\ e.tag = TagInteger /\ e.end > e.start
    /\ e.end - e.start > 1 =>
          /\ ~(b[e.start + 1] = 0 /\ b[e.start + 2] < 128)
          /\ ~(b[e.start + 1] = 255 /\ b[e.start + 2] >= 128)

\* a pkix.AlgorithmIdentifier: a SEQUENCE that starts with an OBJECT IDENTIFIER
IsAlgorithmIdentifier(b, e) ==
    /\ e.ok /\ e.tag = TagSequence
    /\ LET o == ReadElement(Slice(b, e.start, e.end), 0)
       IN  o.ok /\ o.tag = TagOID /\ o.end > o.start /\ b[e.start + o.end] < 128

\* the fields of TBSCertificate from the content of its SEQUENCE: Version
\* (optional, explicit [0]), SerialNumber, Signature, Issuer; what follows the
\* issuer is not read
ParseTBS(tbs) ==
    LET bad == [ok |-> FALSE, SerialNumber |-> 0, Issuer |-> RawValue(0, <<>>)]
        first == ReadElement(tbs, 0)
        hasVersion == first.ok /\ first.tag = TagContext0 /\ first.end > first.start
        vInner == ReadElement(tbs, first.start)
        serialOff == IF hasVersion THEN vInner.end ELSE 0
        serial == ReadElement(tbs, serialOff)
        alg == ReadElement(tbs, serial.end)
        issuer == ReadElement(tbs, alg.end)
    IN  IF hasVersion /\ ~IsInteger(tbs, vInner) THEN bad
        ELSE IF ~IsInteger(tbs, serial) THEN bad
        ELSE IF ~IsAlgorithmIdentifier(tbs, alg) THEN bad
        ELSE IF ~issuer.ok THEN bad
        ELSE [ok |-> TRUE,
              SerialNumber |-> IntValue(tbs, serial.start, serial.end),
              Issuer |-> [Tag |-> issuer.tag, Bytes |-> Slice(tbs, issuer.start, issuer.end),
                          FullBytes |-> Slice(tbs, alg.end, issuer.end)]]

\* asn1.Unmarshal(certDER, &cert): the parsed fields, the bytes left, the error
UnmarshalCertificate(certDER) ==
    LET none == [SerialNumber |-> 0, Issuer |-> RawValue(0, <<>>)]
        top == ReadElement(certDER, 0)
        outer == Slice(certDER, top.start, top.end)
        tbs == ReadElement(outer, 0)
        p == ParseTBS(Slice(outer, tbs.start, tbs.end))
    IN  IF ~top.ok THEN [cert |-> none, rest |-> <<>>, err |-> NewError("asn1: syntax error")]
        ELSE IF top.tag # TagSequence \/ ~tbs.ok \/ tbs.tag # TagSequence
        THEN [cert |-> none, rest |-> <<>>, err |-> NewError("asn1: structure error: tags don't match")]
        ELSE IF ~p.ok
        THEN [cert |-> none, rest |-> <<>>, err |-> NewError("asn1: structure error")]
        ELSE [cert |-> [SerialNumber |-> p.SerialNumber, Issuer |-> p.Issuer],
              rest |-> Slice(certDER, top.end, Len(certDER)), err |-> NoErr]

\* faulty variant of NewSigner: the error of the parse is not looked at
NewSigner_IgnoresParseError(privateKey, certDER) ==
    LET u == UnmarshalCertificate(certDER)
    IN  [val |-> [PrivateKey |-> privateKey, Certificate |-> certDER, certParsed |-> u.cert],
         err |-> NoErr]

\* NewSigner (cms.go:107-120)
NewSigner(privateKey, certDER) ==
    LET u == UnmarshalCertificate(certDER)
    IN  IF u.err # NoErr
        THEN [val |-> Nil, err |-> Wrap(u.err, "failed to parse certificate")]
        ELSE [val |-> [PrivateKey |-> privateKey, Certificate |-> certDER, certParsed |-> u.cert],
              err |-> NoErr]

(***************************************************************************)
(* Signer.Sign (cms.go:122-283).  The locals of one call are a record l;   *)
(* s is the Signer.  time.Now() and the bytes read from rand.Reader are    *)
(* inputs of the call: now is the instant, draws the successive values of  *)
(* the nonce that SignDigest reads, the reader failing when they run out.  *)
(***************************************************************************)
\* (*gost3410.PrivateKey).SignDigest on residues: a draw is tried again when
\* k, r or s comes out zero
RECURSIVE SignDraws(_, _, _, _)
SignDraws(prv, e, draws, i) ==
    IF i > Len(draws) THEN [sig |-> NilBytes, err |-> NewError("unexpected EOF")]
    ELSE LET q == prv.C.Q
             k == draws[i] % q
             r == PointX(prv.C, k) % q
             sv == (prv.Key * r + k * e) % q
         IN  IF k = 0 \/ r = 0 \/ sv = 0 THEN SignDraws(prv, e, draws, i + 1)
             ELSE [sig |-> Pad(BigBytes(sv), prv.Mode) \o Pad(BigBytes(r), prv.Mode), err |-> NoErr]

\* faulty variant of SignDigest: the signature keeps a slot of 2 * Mode bytes
\* for every draw that was available, not only for the one that was used
SignDigest_SlotPerDraw(prv, digest, draws) ==
    LET e0 == SetBytesMod(digest, prv.C.Q)
        r == SignDraws(prv, IF e0 = 0 THEN 1 ELSE e0, draws, 1)
    IN  IF r.err # NoErr THEN r
        ELSE [r EXCEPT !.sig = Zeros(2 * prv.Mode * (Len(draws) - 1)) \o r.sig]

SignDigest(prv, digest, draws) ==
    LET e0 == SetBytesMod(digest, prv.C.Q)
    IN  SignDraws(prv, IF e0 = 0 THEN 1 ELSE e0, draws, 1)

\* Attribute{Type: oid, Values: RawValue{universal SET, Bytes: value}}
MarshalAttribute(oid, value) ==
    TLV(TagSequence, MarshalOID(oid) \o MarshalRawValue(RawValue(TagSet, value)))

\* faulty variant of createSignedAttributes: the attributes are put in the
\* order of a DER SET OF, messageDigest before signingTime
createSignedAttributes_DERSorted(digest, now) ==
    LET signingTime == MarshalTime(now)
        attrsBytes == TLV(TagSequence,
                          MarshalAttribute(OIDAttributeContentType, MarshalOID(OIDData))
                          \o MarshalAttribute(OIDAttributeMessageDigest, MarshalOctetString(digest))
                          \o MarshalAttribute(OIDAttributeSigningTime, signingTime.bytes))
    IN  IF signingTime.err # NoErr
        THEN [signedAttrs |-> RawValue(0, <<>>), attrsForSigning |-> NilBytes,
              err |-> Wrap(signingTime.err, "failed to marshal signing time")]
        ELSE [signedAttrs |-> RawValue(TagContext0, Slice(attrsBytes, 2, Len(attrsBytes))),
              attrsForSigning |-> [attrsBytes EXCEPT ![1] = TagSet],
              err |-> NoErr]

\* faulty variant of createSignedAttributes: three header bytes are dropped
\* from the encoding that is embedded
createSignedAttributes_DropsThree(digest, now) ==
    LET signingTime == MarshalTime(now)
        attrsBytes == TLV(TagSequence,
                          MarshalAttribute(OIDAttributeContentType, MarshalOID(OIDData))
                          \o MarshalAttribute(OIDAttributeSigningTime, signingTime.bytes)
                          \o MarshalAttribute(OIDAttributeMessageDigest, MarshalOctetString(digest)))
    IN  IF signingTime.err # NoErr
        THEN [signedAttrs |-> RawValue(0, <<>>), attrsForSigning |-> NilBytes,
              err |-> Wrap(signingTime.err, "failed to marshal signing time")]
        ELSE [signedAttrs |-> RawValue(TagContext0, Slice(attrsBytes, 3, Len(attrsBytes))),
              attrsForSigning |-> [attrsBytes EXCEPT ![1] = TagSet],
              err |-> NoErr]

\* createSignedAttributes (cms.go:213-283)
createSignedAttributes(digest, now) ==
    LET contentTypeBytes == MarshalOID(OIDData)
        signingTime == MarshalTime(now)
        digestBytes == MarshalOctetString(digest)
        attrsBytes == TLV(TagSequence,
                          MarshalAttribute(OIDAttributeContentType, contentTypeBytes)
                          \o MarshalAttribute(OIDAttributeSigningTime, signingTime.bytes)
                          \o MarshalAttribute(OIDAttributeMessageDigest, digestBytes))
    IN  IF signingTime.err # NoErr
        THEN [signedAttrs |-> RawValue(0, <<>>), attrsForSigning |-> NilBytes,
              err |-> Wrap(signingTime.err, "failed to marshal signing time")]
        ELSE [signedAttrs |-> RawValue(TagContext0, Slice(attrsBytes, 2, Len(attrsBytes))),
              attrsForSigning |-> [attrsBytes EXCEPT ![1] = TagSet],
              err |-> NoErr]

\* the locals of a call that has not started
NoCall ==
    [stage |-> "idle", content |-> <<>>, now |-> [year |-> 0], draws |-> <<>>,
     contentDigest |-> NilBytes, signedAttrs |-> RawValue(0, <<>>), attrsForSigning |-> NilBytes,
     rawSig |-> NilBytes, out |-> NilBytes, err |-> NoErr]

\* Sign is entered with content; lines 125-129: the digest of the content
SignContentDigest(content, now, draws) ==
    [NoCall EXCEPT !.stage = "attrs", !.content = content, !.now = now, !.draws = draws,
                   !.contentDigest = HashSum(HashWrite(HashNew, content))]

\* lines 132-135
SignAttributes(l) ==
    LET a == createSignedAttributes(l.contentDigest, l.now)
    IN  IF a.err # NoErr
        THEN [l EXCEPT !.stage = "done", !.err = Wrap(a.err, "failed to create signed attributes")]
        ELSE [l EXCEPT !.stage = "sign", !.signedAttrs = a.signedAttrs,
                       !.attrsForSigning = a.attrsForSigning]

\* faulty variant of SignAttrsDigest: the attributes digest is signed as it is
SignAttrsDigest_NoReverse(s, l) ==
    LET attrsDigest == HashSum(HashWrite(HashNew, l.attrsForSigning))
        sg == SignDigest(s.PrivateKey, attrsDigest, l.draws)
    IN  IF sg.err # NoErr
        THEN [l EXCEPT !.stage = "done", !.err = Wrap(sg.err, "failed to sign")]
        ELSE [l EXCEPT !.stage = "marshal", !.rawSig = sg.sig]

\* lines 138-151
SignAttrsDigest(s, l) ==
    LET attrsDigest == HashSum(HashWrite(HashNew, l.attrsForSigning))
        reversedDigest == ReverseBytes(attrsDigest)
        sg == SignDigest(s.PrivateKey, reversedDigest, l.draws)
    IN  IF sg.err # NoErr
        THEN [l EXCEPT !.stage = "done", !.err = Wrap(sg.err, "failed to sign")]
        ELSE [l EXCEPT !.stage = "marshal", !.rawSig = sg.sig]

\* faulty variant of MarshalSignerInfo: the signature algorithm is the
\* combined signature-with-digest OID
MarshalSignerInfo_CombinedOID(s, l) ==
    TLV(TagSequence,
        MarshalInt(1)
        \o TLV(TagSequence, MarshalRawValue(s.certParsed.Issuer) \o MarshalInt(s.certParsed.SerialNumber))
        \o MarshalAlgorithmIdentifier(OIDGostR341112256)
        \o MarshalRawValue(l.signedAttrs)
        \o MarshalAlgorithmIdentifier(OIDGostR341012256WithGostR341112256)
        \o MarshalOctetString(l.rawSig))

\* lines 154-170: asn1.Marshal of the SignerInfo
MarshalSignerInfo(s, l) ==
    TLV(TagSequence,
        MarshalInt(1)
        \o TLV(TagSequence, MarshalRawValue(s.certParsed.Issuer) \o MarshalInt(s.certParsed.SerialNumber))
        \o MarshalAlgorithmIdentifier(OIDGostR341112256)
        \o MarshalRawValue(l.signedAttrs)
        \o MarshalAlgorithmIdentifier(OIDGostR341012256)
        \o MarshalOctetString(l.rawSig))

\* faulty variant of MarshalSignedData: the content is carried as eContent
MarshalSignedData_Attached(s, l) ==
    TLV(TagSequence,
        MarshalInt(1)
        \o TLV(TagSet, MarshalAlgorithmIdentifier(OIDGostR341112256))
        \o TLV(TagSequence, MarshalOID(OIDData) \o TLV(TagContext0, MarshalOctetString(l.content)))
        \o MarshalRawValue(RawValue(TagContext0, s.Certificate))
        \o TLV(TagSet, MarshalSignerInfo(s, l)))

\* lines 173-197: asn1.Marshal of the SignedData; the zero EContent is left out
MarshalSignedData(s, l) ==
    TLV(TagSequence,
        MarshalInt(1)
        \o TLV(TagSet, MarshalAlgorithmIdentifier(OIDGostR341112256))
        \o TLV(TagSequence, MarshalOID(OIDData))
        \o MarshalRawValue(RawValue(TagContext0, s.Certificate))
        \o TLV(TagSet, MarshalSignerInfo(s, l)))

\* faulty variant of SignMarshal: the SignedData is returned without the
\* ContentInfo around it
SignMarshal_BareSignedData(s, l) ==
    [l EXCEPT !.stage = "done", !.out = MarshalSignedData(s, l)]

\* lines 154-210
SignMarshal(s, l) ==
    LET signedDataBytes == MarshalSignedData(s, l)
    IN  [l EXCEPT !.stage = "done",
                  !.out = TLV(TagSequence,
                              MarshalOID(OIDSignedData)
                              \o MarshalRawValue(RawValue(TagContext0, signedDataBytes)))]

\* faulty variant of SignerAfterSign: the Signer's certificate buffer is
\* reused for the content of the call
SignerAfterSign_ReusesBuffer(s, l) == [s EXCEPT !.Certificate = s.Certificate \o l.content]

\* the Signer as a step of Sign leaves it: Sign has a pointer receiver and
\* assigns to no field of it
SignerAfterSign(s, l) == s

\* Sign run from entry to return
Sign(s, content, now, draws) ==
    LET l1 == SignAttributes(SignContentDigest(content, now, draws))
        l2 == IF l1.stage = "done" THEN l1 ELSE SignAttrsDigest(s, l1)
        l3 == IF l2.stage = "done" THEN l2 ELSE SignMarshal(s, l2)
    IN  [out |-> l3.out, err |-> l3.err]

(***************************************************************************)
(* The signing scenario: NewSigner, then Sign calls on the one Signer by   *)
(* two callers whose steps interleave                                      *)
(***************************************************************************)
\* the certificate of the package's tests (createTestCertDER)
createTestCertDER ==
    <<
       48, 130, 1, 0, 48, 129, 240, 160, 3, 2, 1, 2, 2, 1, 1, 48, 10, 6, 8, 42, 133, 3, 7, 1, 1,
       3, 2, 48, 11, 49, 9, 48, 7, 6, 3, 85, 4, 3, 12, 0, 48, 30, 23, 13, 50, 52, 48, 49, 48, 49,
       48, 48, 48, 48, 48, 48, 90, 23, 13, 50, 53, 48, 49, 48, 49, 48, 48, 48, 48, 48, 48, 90,
       48, 11, 49, 9, 48, 7, 6, 3, 85, 4, 3, 12, 0, 48, 102, 48, 31, 6, 8, 42, 133, 3, 7, 1, 1,
       1, 1, 48, 19, 6, 7, 42, 133, 3, 2, 2, 35, 1, 6, 8, 42, 133, 3, 7, 1, 1, 2, 2, 3, 67, 0, 4,
       64
    >> \o Zeros(64) \o
    <<
       48, 10, 6, 8, 42, 133, 3, 7, 1, 1, 3, 2, 3, 65, 0
    >> \o Zeros(64)

\* certificates of the model: a TBSCertificate with or without the version,
\* the serial number's content octets, an issuer of issuerLen content bytes
CertificateDER(withVersion, serialOctets, issuerLen) ==
    TLV(TagSequence,
        TLV(TagSequence,
            (IF withVersion THEN TLV(TagContext0, MarshalInt(2)) ELSE <<>>)
            \o TLV(TagInteger, serialOctets)
            \o MarshalAlgorithmIdentifier(OIDGostR341012256WithGostR341112256)
            \o TLV(TagSequence, [i \in 1..issuerLen |-> 85])
            \o TLV(TagSequence, <<>>))
        \o MarshalAlgorithmIdentifier(OIDGostR341012256WithGostR341112256)
        \o TLV(3, <<0, 1>>))

GoodCertKinds == {"v3", "noversion", "issuer41", "issuer44", "trailing", "test"}
BadCertKinds == {"empty", "truncated", "notsequence", "noserial", "noissuer",
                 "emptyserial", "paddedserial"}
Certificate(kind) ==
    LET v3 == CertificateDER(TRUE, <<1>>, 13)
    IN  CASE kind = "v3" -> v3
          [] kind = "noversion" -> CertificateDER(FALSE, <<0, 200>>, 13)
          [] kind = "issuer41" -> CertificateDER(TRUE, <<1>>, 41)
          [] kind = "issuer44" -> CertificateDER(TRUE, <<1>>, 44)
          [] kind = "trailing" -> v3 \o <<0, 0>>
          [] kind = "test" -> createTestCertDER
          [] kind = "empty" -> <<>>
          [] kind = "truncated" -> Slice(v3, 0, Len(v3) - 1)
          [] kind = "notsequence" -> [v3 EXCEPT ![1] = TagSet]
          [] kind = "noserial" ->
                TLV(TagSequence, TLV(TagSequence,
                    MarshalAlgorithmIdentifier(OIDGostR341012256WithGostR341112256)
                    \o TLV(TagSequence, <<85>>)))
          [] kind = "noissuer" ->
                TLV(TagSequence, TLV(TagSequence,
                    MarshalInt(1) \o MarshalAlgorithmIdentifier(OIDGostR341012256WithGostR341112256)))
          [] kind = "emptyserial" -> CertificateDER(TRUE, <<>>, 13)
          [] kind = "paddedserial" -> CertificateDER(TRUE, <<0, 1>>, 13)

Callers == {1, 2}
SignScalars == {7}
SignCurves == {CurveCryptoProA, CurveTc26A}
Contents == {<<>>, <<1>>}
Instant(y, mo, d, h, mi, sec) ==
    [year |-> y, month |-> mo, day |-> d, hour |-> h, minute |-> mi, second |-> sec]
Instants == {Instant(2049, 12, 31, 23, 59, 59), Instant(2050, 1, 1, 0, 0, 0),
             Instant(10000, 1, 1, 0, 0, 0)}
Draws == {<<>>, <<0, 3>>, <<250>>}

SignInit ==
    /\ ContainerIdle
    /\ kdf = NoKdf
    /\ pc = "start"
    /\ signer = Nil
    /\ calls = [c \in Callers |-> NoCall]
    /\ \E kind \in GoodCertKinds \cup BadCertKinds, curve \in SignCurves, k \in SignScalars :
          fn = [op |-> "NewSigner", kind |-> kind, certDER |-> Certificate(kind),
                privateKey |-> NewPrivateKey(curve, Mode2001, LE32(k)).prv]

DoNewSigner ==
    /\ pc = "start" /\ fn.op = "NewSigner"
    /\ LET r == NewSigner(fn.privateKey, fn.certDER)
       IN  /\ result' = r
           /\ signer' = r.val
           /\ pc' = IF r.err = NoErr THEN "ready" ELSE "failed"
    /\ UNCHANGED <<fs, password, wrapPw, container, reads, kdf, fn, calls>>

SignEnter(c) ==
    /\ pc = "ready" /\ calls[c].stage = "idle"
    /\ \E content \in Contents, now \in Instants, draws \in Draws :
          calls' = [calls EXCEPT ![c] = SignContentDigest(content, now, draws)]
    /\ signer' = SignerAfterSign(signer, calls'[c])
    /\ UNCHANGED <<fs, password, wrapPw, container, pc, result, reads, kdf, fn>>

SignStepAttributes(c) ==
    /\ pc = "ready" /\ calls[c].stage = "attrs"
    /\ calls' = [calls EXCEPT ![c] = SignAttributes(calls[c])]
    /\ signer' = SignerAfterSign(signer, calls'[c])
    /\ UNCHANGED <<fs, password, wrapPw, container, pc, result, reads, kdf, fn>>

SignStepSignature(c) ==
    /\ pc = "ready" /\ calls[c].stage = "sign"
    /\ calls' = [calls EXCEPT ![c] = SignAttrsDigest(signer, calls[c])]
    /\ signer' = SignerAfterSign(signer, calls'[c])
    /\ UNCHANGED <<fs, password, wrapPw, container, pc, result, reads, kdf, fn>>

SignStepMarshal(c) ==
    /\ pc = "ready" /\ calls[c].stage = "marshal"
    /\ calls' = [calls EXCEPT ![c] = SignMarshal(signer, calls[c])]
    /\ signer' = SignerAfterSign(signer, calls'[c])
    /\ UNCHANGED <<fs, password, wrapPw, container, pc, result, reads, kdf, fn>>

SignNext ==
    \/ DoNewSigner
    \/ \E c \in Callers :
          SignEnter(c) \/ SignStepAttributes(c) \/ SignStepSignature(c) \/ SignStepMarshal(c)

SpecSign == SignInit /\ [][SignNext]_vars

\* a returned Sign call of caller c, and one that returned a CMS
Signed(c) == calls[c].stage = "done"
Produced(c) == Signed(c) /\ calls[c].err = NoErr

\* C12: NewSigner returns an error and no Signer for an empty certificate and
\* for one that does not yield the serial number and the issuer; a Signer that
\* exists holds the certificate it was given, its issuer element and its
\* serial number.
C12_NewSignerValidates ==
    fn.op = "NewSigner" =>
        /\ pc = "start" => signer = Nil
        /\ (pc # "start" /\ fn.kind \in BadCertKinds) =>
              (pc = "failed" /\ signer = Nil /\ result.val = Nil /\ result.err # NoErr)
        /\ (pc # "start" /\ fn.kind \in GoodCertKinds) => (pc = "ready" /\ signer # Nil)
        /\ signer # Nil =>
              /\ result.err = NoErr
              /\ signer.Certificate = fn.certDER
              /\ signer.PrivateKey = fn.privateKey
              /\ LET iss == signer.certParsed.Issuer.FullBytes
                     e == ReadElement(iss, 0)
                 IN  /\ e.ok /\ e.end = Len(iss)
                     /\ BytesContains(fn.certDER, iss)
                     /\ BytesContains(fn.certDER, MarshalInt(signer.certParsed.SerialNumber))
              /\ signer.certParsed.SerialNumber = (IF fn.kind = "noversion" THEN 200 ELSE 1)
              /\ fn.kind = "test" =>
                    signer.certParsed.Issuer.FullBytes = <<48, 11, 49, 9, 48, 7, 6, 3, 85, 4, 3, 12, 0>>

C12_Witness ==
    /\ fn.op = "NewSigner" /\ fn.certDER = <<>>
    /\ pc = "failed" /\ signer = Nil /\ result.err # NoErr

\* C13: every error of the core is identifiable by sentinel identity: a
\* NewSigner parse failure is ErrCertificateParse, a failed Sign is one of
\* ErrSignedAttributes, ErrSign, ErrMarshalSignedData.
C13_ErrorsAreSentinels ==
    /\ (fn.op = "NewSigner" /\ pc = "failed") => ErrorsIs(result.err, ErrCertificateParse)
    /\ \A c \in Callers :
          (fn.op = "NewSigner" /\ Signed(c) /\ calls[c].err # NoErr) =>
              \/ ErrorsIs(calls[c].err, ErrSignedAttributes)
              \/ ErrorsIs(calls[c].err, ErrSign)
              \/ ErrorsIs(calls[c].err, ErrMarshalSignedData)

\* reading a CMS back: the elements between two offsets, the bytes of an
\* element's content, the fields of the ContentInfo and of the SignedData in it
RECURSIVE ElementsIn(_, _, _)
ElementsIn(b, from, to) ==
    IF from >= to THEN <<>>
    ELSE LET e == ReadElement(b, from)
         IN  IF ~e.ok \/ e.end > to THEN <<NoElement>>
             ELSE <<e>> \o ElementsIn(b, e.end, to)

ContentOf(b, e) == Slice(b, e.start, e.end)
AllOk(es) == \A i \in 1..Len(es) : es[i].ok

ContentInfoFields(o) ==
    LET top == ReadElement(o, 0)
    IN  IF top.ok /\ top.tag = 48 /\ top.end = Len(o) THEN ElementsIn(o, top.start, top.end)
        ELSE <<>>

SignedDataFields(o) ==
    LET ci == ContentInfoFields(o)
    IN  IF Len(ci) = 2 /\ AllOk(ci) /\ ci[2].tag = 160
        THEN LET inner == ElementsIn(o, ci[2].start, ci[2].end)
             IN  IF Len(inner) = 1 /\ AllOk(inner) /\ inner[1].tag = 48
                 THEN ElementsIn(o, inner[1].start, inner[1].end)
                 ELSE <<>>
        ELSE <<>>

\* C14: Sign on a constructed Signer returns, for every message, the empty one
\* included, a byte string that begins with 0x30, is at least 100 bytes long and
\* reads as ContentInfo { id-signedData, [0] EXPLICIT SignedData }; it returns
\* one whenever the random source delivers and the instant has a four-digit year.
C14_ContentInfoShape ==
    \A c \in Callers :
        (fn.op = "NewSigner" /\ Signed(c)) =>
            /\ (calls[c].err = NoErr) <=> (calls[c].draws # <<>> /\ calls[c].now.year <= 9999)
            /\ Produced(c) =>
                  LET o == calls[c].out
                      ci == ContentInfoFields(o)
                  IN  /\ o[1] = 48
                      /\ Len(o) >= 100
                      /\ Len(ci) = 2 /\ AllOk(ci)
                      /\ ci[1].tag = 6
                      /\ ContentOf(o, ci[1]) = <<42, 134, 72, 134, 247, 13, 1, 7, 2>>
                      /\ ci[2].tag = 160 /\ ci[2].end = Len(o)
                      /\ Len(SignedDataFields(o)) > 0 /\ AllOk(SignedDataFields(o))

C14_Witness ==
    \E c \in Callers : fn.op = "NewSigner" /\ Produced(c) /\ calls[c].content = <<>>
                       /\ Len(calls[c].out) >= 100

\* |a - b|
AbsDiff(a, b) == IF a >= b THEN a - b ELSE b - a

\* C15: two Sign calls on one Signer with the same message, at any two
\* instants and with any random values, return outputs whose lengths differ by
\* at most 10 bytes.
C15_LengthsWithinTen ==
    \A c, d \in Callers :
        (fn.op = "NewSigner" /\ Produced(c) /\ Produced(d) /\ calls[c].content = calls[d].content)
            => AbsDiff(Len(calls[c].out), Len(calls[d].out)) <= 10

C15_Witness ==
    \E c, d \in Callers :
        /\ fn.op = "NewSigner" /\ c # d /\ Produced(c) /\ Produced(d)
        /\ calls[c].content = calls[d].content
        /\ calls[c].now # calls[d].now /\ calls[c].draws # calls[d].draws
        /\ AbsDiff(Len(calls[c].out), Len(calls[d].out)) >= 3

\* the SignerInfos of a CMS, the fields of its first SignerInfo, and the
\* attributes under the SignerInfo's [0]
SignerInfos(o) ==
    LET sd == SignedDataFields(o)
    IN  IF Len(sd) = 5 /\ AllOk(sd) /\ sd[5].tag = 49
        THEN ElementsIn(o, sd[5].start, sd[5].end) ELSE <<>>

SignerInfoFields(o) ==
    LET si == SignerInfos(o)
    IN  IF Len(si) >= 1 /\ si[1].ok /\ si[1].tag = 48
        THEN ElementsIn(o, si[1].start, si[1].end) ELSE <<>>

SignedAttributes(o) ==
    LET f == SignerInfoFields(o)
    IN  IF Len(f) = 6 /\ AllOk(f) /\ f[4].tag = 160
        THEN ElementsIn(o, f[4].start, f[4].end) ELSE <<>>

\* an attribute read back: its OID's content octets and the elements of its
\* value set
AttributeType(o, a) ==
    LET f == ElementsIn(o, a.start, a.end)
    IN  IF Len(f) = 2 /\ AllOk(f) /\ a.tag = 48 /\ f[1].tag = 6 THEN ContentOf(o, f[1]) ELSE <<>>

AttributeValues(o, a) ==
    LET f == ElementsIn(o, a.start, a.end)
    IN  IF Len(f) = 2 /\ AllOk(f) /\ f[2].tag = 49 THEN ElementsIn(o, f[2].start, f[2].end)
        ELSE <<>>

\* the instant that a UTCTime or GeneralizedTime element denotes
DigitPair(b, i) == (b[i] - 48) * 10 + (b[i + 1] - 48)
TimeRead(tag, b) ==
    LET k == IF tag = 23 THEN 2 ELSE 4
        yy == DigitPair(b, 1)
        year == IF tag = 23 THEN (IF yy >= 50 THEN 1900 + yy ELSE 2000 + yy)
                ELSE yy * 100 + DigitPair(b, 3)
    IN  IF Len(b) # k + 11 \/ b[k + 11] # 90 \/ tag \notin {23, 24} THEN [year |-> -1]
        ELSE Instant(year, DigitPair(b, k + 1), DigitPair(b, k + 3), DigitPair(b, k + 5),
                     DigitPair(b, k + 7), DigitPair(b, k + 9))

\* C16: the signed attributes of every Sign output are exactly three, in the
\* order contentType (value id-data), signingTime (value the UTC instant of the
\* call), messageDigest (value the 32-byte Streebog-256 hash of the message),
\* each with a value set of one element and with pairwise distinct OIDs; the
\* order is not that of a DER SET OF.
C16_ThreeAttributesInOrder ==
    \A c \in Callers :
        (fn.op = "NewSigner" /\ Produced(c)) =>
            LET o == calls[c].out
                a == SignedAttributes(o)
            IN  /\ Len(a) = 3 /\ AllOk(a)
                /\ AttributeType(o, a[1]) = <<42, 134, 72, 134, 247, 13, 1, 9, 3>>
                /\ AttributeType(o, a[2]) = <<42, 134, 72, 134, 247, 13, 1, 9, 5>>
                /\ AttributeType(o, a[3]) = <<42, 134, 72, 134, 247, 13, 1, 9, 4>>
                /\ \A i, j \in 1..3 : i # j => AttributeType(o, a[i]) # AttributeType(o, a[j])
                /\ \A i \in 1..3 : Len(AttributeValues(o, a[i])) = 1 /\ AllOk(AttributeValues(o, a[i]))
                /\ LET v == AttributeValues(o, a[1])[1]
                   IN  v.tag = 6 /\ ContentOf(o, v) = <<42, 134, 72, 134, 247, 13, 1, 7, 1>>
                /\ LET v == AttributeValues(o, a[2])[1]
                   IN  TimeRead(v.tag, ContentOf(o, v)) = calls[c].now
                /\ LET v == AttributeValues(o, a[3])[1]
                   IN  /\ v.tag = 4 /\ v.end - v.start = 32
                       /\ ContentOf(o, v) = Streebog256(calls[c].content)

C16_Witness ==
    \E c \in Callers :
        /\ fn.op = "NewSigner" /\ Produced(c) /\ calls[c].now.year = 2050
        /\ calls[c].content = <<1>>
        /\ Len(SignedAttributes(calls[c].out)) = 3

\* C17: every Sign output is a detached SignedData: version 1, one digest
\* algorithm, encapContentInfo with eContentType id-data and no eContent, the
\* certificates field under 0xA0 holding exactly the DER given to NewSigner,
\* and one SignerInfo.
C17_DetachedSignedData ==
    \A c \in Callers :
        (fn.op = "NewSigner" /\ Produced(c)) =>
            LET o == calls[c].out
                sd == SignedDataFields(o)
            IN  /\ Len(sd) = 5 /\ AllOk(sd)
                /\ sd[1].tag = 2 /\ ContentOf(o, sd[1]) = <<1>>
                /\ sd[2].tag = 49
                /\ LET algs == ElementsIn(o, sd[2].start, sd[2].end)
                   IN  Len(algs) = 1 /\ AllOk(algs) /\ algs[1].tag = 48
                /\ sd[3].tag = 48
                /\ LET encap == ElementsIn(o, sd[3].start, sd[3].end)
                   IN  /\ Len(encap) = 1 /\ AllOk(encap) /\ encap[1].tag = 6
                       /\ ContentOf(o, encap[1]) = <<42, 134, 72, 134, 247, 13, 1, 7, 1>>
                /\ sd[4].tag = 160 /\ ContentOf(o, sd[4]) = fn.certDER
                /\ sd[5].tag = 49
                /\ Len(SignerInfos(o)) = 1 /\ AllOk(SignerInfos(o)) /\ SignerInfos(o)[1].tag = 48

C17_Witness ==
    \E c \in Callers :
        /\ fn.op = "NewSigner" /\ fn.kind = "test" /\ Produced(c) /\ calls[c].content = <<1>>
        /\ Len(SignedDataFields(calls[c].out)) = 5

C21_SecretsZeroised ==
    (Extracted /\ result.derivedKey # NilBytes) =>
        /\ BytesAreZero(result.derivedKey)
        /\ result.decrypted # NilBytes => BytesAreZero(result.decrypted)

\* the number of passes the loop makes for a password
PassesFor(pw) == IF Len(pw) > 0 THEN 2000 ELSE 2

\* C22: cpkdf terminates for every password and salt (the pass counter goes
\* up by one in every pass, never beyond its limit, and the call returns when
\* the limit is reached), after exactly 2000 passes of its loop for a
\* non-empty password and exactly 2 for the empty one;
\* the loop starts from the 32-byte constant zero-padded to 64 bytes, and a
\* pass sets C to Streebog256(m0 || H0 || m1 || H0) zero-padded to 64 bytes,
\* m0 and m1 being C XORed byte-wise with 0x36 and 0x5C.
C22_KdfLoop ==
    /\ [](pc = "loop" =>
            /\ kdf.st.i <= PassesFor(fn.pw)
            /\ Len(kdf.st.c) = 64
            /\ kdf.st.i = 0 => (Len(KdfMagic) = 32 /\ kdf.st.c = KdfMagic \o Zeros(32)))
    /\ [][(pc = "loop" /\ pc' = "loop") =>
            LET C == kdf.st.c
                H0 == kdf.st.hashResult
                m0 == [j \in 1..64 |-> Xor(C[j], 54)]
                m1 == [j \in 1..64 |-> Xor(C[j], 92)]
            IN  /\ kdf'.st.i = kdf.st.i + 1
                /\ kdf'.st.c = Streebog256(m0 \o H0 \o m1 \o H0) \o Zeros(32)]_vars
    /\ [][pc = "loop" =>
            \/ pc' = "loop" /\ kdf.st.i < PassesFor(fn.pw)
            \/ pc' = "call" /\ kdf.st.i = PassesFor(fn.pw) /\ Len(fn'.keys) = Len(fn.keys) + 1]_vars

C22_Witness ==
    /\ pc = "loop" /\ fn.op = "cpkdf" /\ Len(fn.pw) > 0 /\ kdf.st.i = 2000
    /\ Len(fn.keys) = 1

\* C23: the expanded password of a password of n > 0 bytes has 4n bytes,
\* password byte i at index 4i and zero elsewhere, and is empty for the empty
\* password; the seed hash is Streebog256(salt || expanded) and the key comes
\* from the salted-mix hash Streebog256(m0[0..32] || salt || m1[0..32] ||
\* expanded), so an empty expansion contributes no bytes to either.
C23_ExpandedPassword ==
    /\ [](pc = "loop" =>
            LET pin == kdf.st.pin
                n == Len(fn.pw)
            IN  /\ Len(pin) = 4 * n
                /\ \A i \in 0..(4 * n - 1) :
                      pin[i + 1] = IF i % 4 = 0 THEN fn.pw[(i \div 4) + 1] ELSE 0
                /\ n = 0 => pin = <<>>
                /\ kdf.st.hashResult = Streebog256(fn.salt \o pin)
                /\ n = 0 => kdf.st.hashResult = Streebog256(fn.salt))
    /\ [][(pc = "loop" /\ pc' = "call") =>
            LET C == kdf.st.c
                m0 == [j \in 1..32 |-> Xor(C[j], 54)]
                m1 == [j \in 1..32 |-> Xor(C[j], 92)]
                mix == Streebog256(m0 \o fn.salt \o m1 \o kdf.st.pin)
                key == fn'.keys[Len(fn'.keys)].key
            IN  /\ key = Streebog256(mix)
                /\ Len(fn.pw) = 0 => key = Streebog256(Streebog256(m0 \o fn.salt \o m1))]_vars

C23_Witness ==
    /\ fn.op = "cpkdf" /\ fn.pw = <<49, 50>> /\ pc = "call" /\ Len(fn.keys) = 1
    /\ fn.salt # <<>>

\* a call that holds its signed attributes
HasAttributes(c) == calls[c].stage \in {"sign", "marshal"} \/ Produced(c)

\* C24: the bytes hashed for signing are the encoding of the SEQUENCE OF
\* Attribute with only byte 0 changed from 0x30 to 0x31, and the signedAttrs
\* embedded under 0xA0 are exactly the content octets of that encoding: its
\* header is 2 bytes (content shorter than 128 bytes) for every signing time.
C24_AttributesForSigning ==
    \A c \in Callers :
        (fn.op = "NewSigner" /\ HasAttributes(c)) =>
            LET forSigning == calls[c].attrsForSigning
                asSequence == [forSigning EXCEPT ![1] = 48]
                e == ReadElement(asSequence, 0)
                attrs == ElementsIn(asSequence, e.start, e.end)
            IN  /\ forSigning[1] = 49
                /\ e.ok /\ e.end = Len(forSigning)
                /\ e.start = 2 /\ e.end - e.start < 128 /\ forSigning[2] = e.end - e.start
                /\ Len(attrs) = 3 /\ AllOk(attrs) /\ \A i \in 1..3 : attrs[i].tag = 48
                /\ calls[c].signedAttrs.Tag = 160
                /\ calls[c].signedAttrs.Bytes = ContentOf(asSequence, e)
                /\ Produced(c) =>
                      LET o == calls[c].out
                          f == SignerInfoFields(o)
                      IN  /\ Len(f) = 6 /\ f[4].tag = 160
                          /\ ContentOf(o, f[4]) = ContentOf(asSequence, e)
                          /\ Slice(o, f[4].start - 2, f[4].end) = <<160>> \o Tail(forSigning)

C24_Witness ==
    \E c \in Callers :
        /\ fn.op = "NewSigner" /\ calls[c].stage = "sign" /\ calls[c].now.year = 2050
        /\ Len(calls[c].attrsForSigning) = 109

\* the signature the scalar primitive gives for reverse(Streebog256(b)) with
\* the private key of the Signer and the random values of caller c
SignatureOver(c, b) ==
    LET d == Streebog256(b)
    IN  SignDigest(fn.privateKey, [i \in 1..Len(d) |-> d[Len(d) + 1 - i]], calls[c].draws)

\* C25: the signature of the SignerInfo is the 64-byte result of the scalar
\* signing primitive on reverse(Streebog256(attrs_for_signing)), where
\* attrs_for_signing is the 0x31-tagged encoding of the signed attributes of
\* the output; when the primitive fails Sign returns an error and no output.
C25_SignatureOverReversedDigest ==
    \A c \in Callers :
        (fn.op = "NewSigner" /\ Signed(c)) =>
            /\ Produced(c) =>
                  LET o == calls[c].out
                      f == SignerInfoFields(o)
                      forSigning == <<49>> \o Slice(o, f[4].start - 1, f[4].end)
                      sg == SignatureOver(c, forSigning)
                  IN  /\ Len(f) = 6 /\ f[4].tag = 160 /\ f[6].tag = 4
                      /\ f[6].end = SignerInfos(o)[1].end
                      /\ f[6].end - f[6].start = 64
                      /\ sg.err = NoErr
                      /\ ContentOf(o, f[6]) = sg.sig
            /\ (calls[c].attrsForSigning # NilBytes
                    /\ SignatureOver(c, calls[c].attrsForSigning).err # NoErr) =>
                  (calls[c].err # NoErr /\ calls[c].out = NilBytes)

C25_Witness ==
    \E c, d \in Callers :
        /\ fn.op = "NewSigner" /\ Produced(c) /\ calls[c].draws = <<0, 3>>
        /\ Signed(d) /\ calls[d].attrsForSigning # NilBytes /\ calls[d].err # NoErr

\* the issuer element and the serial number's content octets that the
\* certificates of the model carry
IssuerOf(kind) ==
    CASE kind = "test" -> <<48, 11, 49, 9, 48, 7, 6, 3, 85, 4, 3, 12, 0>>
      [] kind = "issuer41" -> <<48, 41>> \o [i \in 1..41 |-> 85]
      [] kind = "issuer44" -> <<48, 44>> \o [i \in 1..44 |-> 85]
      [] OTHER -> <<48, 13>> \o [i \in 1..13 |-> 85]
SerialOf(kind) == IF kind = "noversion" THEN <<0, 200>> ELSE <<1>>

\* C26: the SignerInfo of every Sign output has version 1, the issuer element
\* of the certificate byte for byte, the certificate's serial number, digest
\* algorithm 1.2.643.7.1.1.2.2 and signature algorithm 1.2.643.7.1.1.1.1, each
\* with NULL parameters, whatever the curve of the key; the combined OID
\* 1.2.643.7.1.1.3.2 stands in no algorithm field of the output.
C26_SignerInfoFields ==
    \A c \in Callers :
        (fn.op = "NewSigner" /\ Produced(c)) =>
            LET o == calls[c].out
                f == SignerInfoFields(o)
                ias == ElementsIn(o, f[2].start, f[2].end)
                combined == <<42, 133, 3, 7, 1, 1, 3, 2>>
                sd == SignedDataFields(o)
            IN  /\ Len(f) = 6 /\ AllOk(f)
                /\ f[1].tag = 2 /\ ContentOf(o, f[1]) = <<1>>
                /\ f[2].tag = 48 /\ Len(ias) = 2 /\ AllOk(ias)
                /\ Slice(o, f[2].start, ias[1].end) = IssuerOf(fn.kind)
                /\ BytesContains(fn.certDER, IssuerOf(fn.kind))
                /\ ias[2].tag = 2 /\ ContentOf(o, ias[2]) = SerialOf(fn.kind)
                /\ f[3].tag = 48
                /\ ContentOf(o, f[3]) = <<6, 8, 42, 133, 3, 7, 1, 1, 2, 2, 5, 0>>
                /\ f[5].tag = 48
                /\ ContentOf(o, f[5]) = <<6, 8, 42, 133, 3, 7, 1, 1, 1, 1, 5, 0>>
                /\ ~BytesContains(ContentOf(o, sd[2]), combined)
                /\ ~BytesContains(Slice(o, f[3].start, f[6].start), combined)

C26_Witness ==
    \E c \in Callers :
        /\ fn.op = "NewSigner" /\ Produced(c) /\ fn.kind = "noversion"
        /\ fn.privateKey.C = CurveTc26A
        /\ Len(SignerInfoFields(calls[c].out)) = 6

\* C27: ExtractKey reports the first failing step in the order read masks.key,
\* decode masks.key, read primary.key, decode primary.key: a masks.key that is
\* there but does not decode gives the masks.key decode failure, whatever the
\* state of primary.key.
C27_MasksDecodedBeforePrimaryRead ==
    (Extracted /\ fs["masks.key"] # NoFile /\ Unmarshal(fs["masks.key"], 3).err # NoErr) =>
        /\ result.val = Nil /\ result.err # NoErr
        /\ result.err[1] = WithMessage("failed to parse masks.key")

(***************************************************************************)
(* The HTTP service (httpapi): paths, the file system, archives            *)
(***************************************************************************)
\* A path of the file system is the sequence of its components from the
\* root.  A name in an archive is a slash-separated string: whether it starts
\* with a slash, and its components.
Name(abs, parts) == [abs |-> abs, parts |-> parts]

\* filepath.Clean on the components: "." and empty components go, ".." takes
\* away the component before it, cannot climb above the root of a rooted path
\* and stays at the front of a relative one
RECURSIVE CleanParts(_, _, _)
CleanParts(parts, acc, abs) ==
    IF parts = <<>> THEN acc
    ELSE LET p == Head(parts)
         IN  IF p = "." \/ p = "" THEN CleanParts(Tail(parts), acc, abs)
             ELSE IF p = ".."
             THEN IF Len(acc) > 0 /\ acc[Len(acc)] # ".."
                  THEN CleanParts(Tail(parts), SubSeq(acc, 1, Len(acc) - 1), abs)
                  ELSE IF abs THEN CleanParts(Tail(parts), acc, abs)
                  ELSE CleanParts(Tail(parts), Append(acc, ".."), abs)
             ELSE CleanParts(Tail(parts), Append(acc, p), abs)

\* filepath.Clean(name); a relative name that cleans to nothing is "."
Clean(name) == Name(name.abs, CleanParts(name.parts, <<>>, name.abs))

\* the components of the model that begin with two dots
DotDotComponents == {"..", "..x"}

\* strings.HasPrefix(cleanPath, ".."): a rooted path begins with the slash
HasDotDotPrefix(clean) ==
    ~clean.abs /\ Len(clean.parts) > 0 /\ clean.parts[1] \in DotDotComponents

\* filepath.Join(dir, cleanPath): the two joined by a slash and cleaned
Join(dir, clean) == CleanParts(dir \o clean.parts, <<>>, TRUE)

\* filepath.Dir of a path
Dir(path) == IF Len(path) = 0 THEN path ELSE SubSeq(path, 1, Len(path) - 1)

\* the file system: the entry at every existing path
DirEntry == [dir |-> TRUE, data |-> <<>>]
FileEntry(data) == [dir |-> FALSE, data |-> data]
Exists(f, path) == path \in DOMAIN f
IsDir(f, path) == Exists(f, path) /\ f[path].dir
IsFile(f, path) == Exists(f, path) /\ ~f[path].dir
Prefixes(path) == {SubSeq(path, 1, k) : k \in 0..Len(path)}
IsBeneath(path, dir) == Len(path) >= Len(dir) /\ SubSeq(path, 1, Len(dir)) = dir

\* os.MkdirAll
MkdirAll(f, path) ==
    IF \E q \in Prefixes(path) : IsFile(f, q)
    THEN [fs |-> f, err |-> NewError("mkdir: not a directory")]
    ELSE [fs |-> [q \in DOMAIN f \cup Prefixes(path) |-> IF q \in DOMAIN f THEN f[q] ELSE DirEntry],
          err |-> NoErr]

\* os.Create followed by io.Copy of data and Close
CreateFile(f, path, data) ==
    IF IsDir(f, path) THEN [fs |-> f, err |-> NewError("open: is a directory")]
    ELSE IF ~IsDir(f, Dir(path)) THEN [fs |-> f, err |-> NewError("open: no such file or directory")]
    ELSE [fs |-> [q \in DOMAIN f \cup {path} |-> IF q = path THEN FileEntry(data) ELSE f[q]],
          err |-> NoErr]

\* os.Remove of a file, os.RemoveAll of a tree
Remove(f, path) == [q \in DOMAIN f \ {path} |-> f[q]]

\* faulty variant of RemoveAll: a directory that is not empty is left alone
RemoveAll_OnlyEmpty(f, path) ==
    IF \E q \in DOMAIN f : q # path /\ IsBeneath(q, path) THEN f ELSE Remove(f, path)

RemoveAll(f, path) == [q \in {r \in DOMAIN f : ~IsBeneath(r, path)} |-> f[q]]

\* an entry of an archive: its name, its type ("file", "dir" or "symlink") and
\* the bytes it carries
Entry(name, type, data) == [name |-> name, type |-> type, data |-> data]

\* faulty variant of EntryDest: no name is refused
EntryDest_NoTraversalCheck(destDir, name) ==
    [skip |-> FALSE, path |-> CleanParts(destDir \o name.parts, <<>>, TRUE)]

\* types.go:190-196 and 252-258: the entry is skipped when its cleaned name
\* begins with "..", else its destination is destDir joined with that name
EntryDest(destDir, name) ==
    LET cleanPath == Clean(name)
    IN  IF HasDotDotPrefix(cleanPath) THEN [skip |-> TRUE, path |-> <<>>]
        ELSE [skip |-> FALSE, path |-> Join(destDir, cleanPath)]

\* lines 205-227 and 266-280: the parent directory is made, the file created
\* and the entry copied into it
WriteEntry(f, destPath, data) ==
    LET md == MkdirAll(f, Dir(destPath))
    IN  IF md.err # NoErr
        THEN [fs |-> f, err |-> Wrap(md.err, "failed to create parent dir")]
        ELSE LET cr == CreateFile(md.fs, destPath, data)
             IN  IF cr.err # NoErr THEN [fs |-> md.fs, err |-> Wrap(cr.err, "failed to create file")]
                 ELSE cr

\* one pass of the loop of extractZip (lines 189-228): an entry that is not a
\* directory is written as a file
ZipEntry(f, destDir, e) ==
    LET d == EntryDest(destDir, e.name)
    IN  IF d.skip THEN [fs |-> f, err |-> NoErr]
        ELSE IF e.type = "dir"
        THEN LET md == MkdirAll(f, d.path)
             IN  IF md.err # NoErr THEN [fs |-> f, err |-> Wrap(md.err, "failed to create dir")]
                 ELSE md
        ELSE WriteEntry(f, d.path, e.data)

\* one pass of the loop of extractTarGz (lines 243-282): only directories and
\* regular files are acted on
TarEntry(f, destDir, e) ==
    LET d == EntryDest(destDir, e.name)
    IN  IF d.skip THEN [fs |-> f, err |-> NoErr]
        ELSE IF e.type = "dir"
        THEN LET md == MkdirAll(f, d.path)
             IN  IF md.err # NoErr THEN [fs |-> f, err |-> Wrap(md.err, "failed to create dir")]
                 ELSE md
        ELSE IF e.type = "file" THEN WriteEntry(f, d.path, e.data)
        ELSE [fs |-> f, err |-> NoErr]

\* the loop over the entries from the i-th on; the first error ends it
RECURSIVE Unpack(_, _, _, _, _)
Unpack(f, destDir, entries, i, isTar) ==
    IF i > Len(entries) THEN [fs |-> f, err |-> NoErr]
    ELSE LET r == IF isTar THEN TarEntry(f, destDir, entries[i])
                  ELSE ZipEntry(f, destDir, entries[i])
         IN  IF r.err # NoErr THEN r ELSE Unpack(r.fs, destDir, entries, i + 1, isTar)

\* the byte order of the names of the model, in which filepath.Walk visits the
\* entries of a directory
ComponentOrder ==
    <<"..x", "a", "c", "certificate.cer", "cryptopro-extract-1", "etc", "evil", "header.key",
      "masks.key", "passwd", "primary.key", "tmp", "upload-1.zip">>
Rank(c) == CHOOSE i \in 1..Len(ComponentOrder) : ComponentOrder[i] = c
WalkBefore(a, b) ==
    /\ a # b
    /\ \/ IsBeneath(b, a)
       \/ \E k \in 1..Len(a) :
             /\ k <= Len(b)
             /\ SubSeq(a, 1, k - 1) = SubSeq(b, 1, k - 1)
             /\ Rank(a[k]) < Rank(b[k])

\* findContainerDir (lines 288-311): the directory of the first file named
\* header.key that the walk of root meets
findContainerDir(f, root) ==
    LET found == {q \in DOMAIN f : IsBeneath(q, root) /\ IsFile(f, q)
                                   /\ Len(q) > 0 /\ q[Len(q)] = "header.key"}
    IN  IF ~Exists(f, root)
        THEN [dir |-> <<>>, err |-> Wrap(NewError("lstat: no such file or directory"),
                                         "failed to walk directory")]
        ELSE IF found = {} THEN [dir |-> <<>>, err |-> NewError("container not found (no header.key)")]
        ELSE [dir |-> Dir(CHOOSE q \in found : \A r \in found : r = q \/ WalkBefore(q, r)),
              err |-> NoErr]

\* encoding/hex on sequences of hexadecimal digits (0..15)
HexEncodeToString(b) ==
    [i \in 1..(2 * Len(b)) |-> IF i % 2 = 1 THEN b[(i + 1) \div 2] \div 16 ELSE b[i \div 2] % 16]
HexDecodeString(h) ==
    IF Len(h) % 2 = 1
    THEN [bytes |-> <<>>, err |-> NewError("encoding/hex: odd length hex string")]
    ELSE [bytes |-> [i \in 1..(Len(h) \div 2) |-> h[2 * i - 1] * 16 + h[2 * i]], err |-> NoErr]

\* base64.StdEncoding on sequences of 6-bit digits, 64 standing for '='
B64Pad == 64
B64EncodeToString(b) ==
    LET n == Len(b)
        B(j) == IF j <= n THEN b[j] ELSE 0
    IN  [i \in 1..(4 * ((n + 2) \div 3)) |->
            LET g == (i - 1) \div 4
                pos == (i - 1) % 4
                x == B(3 * g + 1)
                y == B(3 * g + 2)
                z == B(3 * g + 3)
            IN  IF pos >= 2 /\ 3 * g + pos > n THEN B64Pad
                ELSE CASE pos = 0 -> x \div 4
                       [] pos = 1 -> (x % 4) * 16 + (y \div 16)
                       [] pos = 2 -> (y % 16) * 4 + (z \div 64)
                       [] pos = 3 -> z % 64]
B64DecodeString(t) ==
    LET n == Len(t)
        pad == IF n >= 2 /\ t[n] = B64Pad /\ t[n - 1] = B64Pad THEN 2
               ELSE IF n >= 1 /\ t[n] = B64Pad THEN 1 ELSE 0
        V(j) == IF t[j] = B64Pad THEN 0 ELSE t[j]
    IN  IF n % 4 # 0 \/ \E j \in 1..(n - pad) : t[j] = B64Pad
        THEN [bytes |-> <<>>, err |-> NewError("illegal base64 data")]
        ELSE [bytes |-> [i \in 1..(3 * (n \div 4) - pad) |->
                            LET g == (i - 1) \div 3
                                pos == (i - 1) % 3
                                a == V(4 * g + 1)
                                b == V(4 * g + 2)
                                c == V(4 * g + 3)
                                d == V(4 * g + 4)
                            IN  CASE pos = 0 -> a * 4 + (b \div 16)
                                  [] pos = 1 -> (b % 16) * 16 + (c \div 4)
                                  [] pos = 2 -> (c % 4) * 64 + d],
              err |-> NoErr]

\* the status codes of net/http that the handlers use, and a response
StatusOK == 200
StatusBadRequest == 400
StatusMethodNotAllowed == 405
StatusInternalServerError == 500
Response(status, body) == [status |-> status, body |-> body]
NoResponse == Response(0, "")

\* the directory at path of the file system as OpenContainer and ExtractKey
\* read it: the bytes of each file, NoFile for what is not a file
DirAt(f, path) ==
    [name \in {"header.key", "masks.key", "primary.key", "masks2.key", "primary2.key",
               "certificate.cer"} |->
        IF IsFile(f, Append(path, name)) THEN f[Append(path, name)].data ELSE NoFile]

\* HandleExtract from the opening of the container to the response
\* (handler_extract.go:62-97); order is the iteration order of the OID map
ExtractResponse(f, containerPath, pin, order) ==
    CHOOSE r \in UNION { UNION {
        IF opened.err # NoErr THEN {Response(StatusBadRequest, "failed to open container")}
        ELSE {IF kd.panic THEN Response(StatusInternalServerError, "panic")
              ELSE IF kd.err # NoErr THEN Response(StatusBadRequest, "failed to extract key")
              ELSE Response(StatusOK,
                            [PrivateKeyHex |-> HexEncodeToString(kd.val.PrivateKey),
                             PublicKeyHex |-> HexEncodeToString(kd.val.PublicKey),
                             Fingerprint |-> HexEncodeToString(kd.val.Fingerprint),
                             CurveOID |-> kd.val.CurveOID,
                             CertificateBase64 |->
                                 IF dir["certificate.cer"] # NoFile
                                 THEN B64EncodeToString(dir["certificate.cer"])
                                 ELSE <<>>]) :
              kd \in {ExtractKey(opened.val, dir, pin)}} :
        opened \in {OpenContainer(dir, order)}} :
        dir \in {DirAt(f, containerPath)}} : TRUE

\* HandleSign (types.go:83-141) on a POST request; prv is the handler's
\* private key, Nil when it was not made
HandleSign(req, now, draws) ==
    LET key == HexDecodeString(req.PrivateKeyHex)
        cert == B64DecodeString(req.CertificateB64)
        curve == CurveCryptoProA
        failed(status, msg) == [resp |-> Response(status, msg), prv |-> Nil]
    IN  IF key.err # NoErr THEN failed(StatusBadRequest, "invalid private key hex")
        ELSE IF cert.err # NoErr THEN failed(StatusBadRequest, "invalid certificate base64")
        ELSE CHOOSE r \in UNION { UNION {
            IF np.err # NoErr THEN {failed(StatusBadRequest, "failed to create private key")}
            ELSE UNION {
                IF ns.err # NoErr
                THEN {[resp |-> Response(StatusBadRequest, "failed to create signer"),
                       prv |-> np.prv]}
                ELSE {IF sg.err # NoErr
                      THEN [resp |-> Response(StatusInternalServerError, "failed to sign"),
                            prv |-> np.prv]
                      ELSE [resp |-> Response(StatusOK,
                                              [SignatureB64 |-> B64EncodeToString(sg.out)]),
                            prv |-> np.prv] :
                      sg \in {Sign(ns.val, message, now, draws)}} :
                ns \in {NewSigner(np.prv, certDER)}} :
            np \in {NewPrivateKey(curve, Mode2001, keyBytes)}} :
            keyBytes \in {key.bytes}, certDER \in {cert.bytes}, message \in {req.Message}} : TRUE

(***************************************************************************)
(* The service scenario: POST /api/v1/extract with an archive, then POST   *)
(* /api/v1/sign with the key of the response                               *)
(***************************************************************************)
TempRoot == <<"tmp">>
TempDirName == "cryptopro-extract-1"
UploadName == "upload-1.zip"

\* the file system before the request: the temporary directory of the system
\* and a file outside it
HostFiles ==
    (<<>> :> DirEntry) @@ (TempRoot :> DirEntry) @@ (<<"etc">> :> DirEntry)
        @@ (<<"etc", "passwd">> :> FileEntry(<<114>>))

\* the archives of the model, for a container directory cd
ArchiveKinds == {"flat", "nested", "absolute", "traversal", "rooted", "dotdotname", "nokey",
                 "fileasdir", "dot", "symlink", "two", "empty"}
Archive(kind, cd) ==
    LET F(abs, dir, name) == Entry(Name(abs, dir \o <<name>>), "file", cd[name])
        Keys(abs, dir) == <<F(abs, dir, "header.key"), F(abs, dir, "masks.key"),
                            F(abs, dir, "primary.key")>>
        Evil(abs, parts) == Entry(Name(abs, parts), "file", <<66>>)
    IN  CASE kind = "flat" -> Keys(FALSE, <<>>)
          [] kind = "nested" ->
                <<Entry(Name(FALSE, <<"c">>), "dir", <<>>)>> \o Keys(FALSE, <<"c">>)
                \o <<Entry(Name(FALSE, <<"c", "certificate.cer">>), "file", Certificate("v3"))>>
          [] kind = "absolute" -> Keys(TRUE, <<"c">>)
          [] kind = "traversal" ->
                <<Evil(FALSE, <<"..", "evil">>), Evil(FALSE, <<"a", "..", "..", "etc", "passwd">>),
                  Entry(Name(FALSE, <<"..", "..", "evil">>), "dir", <<>>)>>
                \o Keys(FALSE, <<".", "c">>)
          [] kind = "rooted" -> <<Evil(TRUE, <<"..", "etc", "passwd">>)>>
          [] kind = "dotdotname" -> Keys(FALSE, <<"..x">>)
          [] kind = "nokey" -> <<F(FALSE, <<"a">>, "masks.key")>>
          [] kind = "fileasdir" -> <<Evil(FALSE, <<"a">>)>> \o Keys(FALSE, <<"a">>)
          [] kind = "dot" -> <<Evil(FALSE, <<"a", "..">>)>>
          [] kind = "symlink" ->
                <<Entry(Name(FALSE, <<"c">>), "symlink", <<47, 101, 116, 99>>)>> \o Keys(FALSE, <<"c">>)
          [] kind = "two" -> Keys(FALSE, <<"c">>) \o Keys(FALSE, <<"a">>)
          [] kind = "empty" -> <<>>

\* the uploads: the suffix of the file name and whether the bytes are an
\* archive of that format at all
Suffixes == {".zip", ".tar.gz", ".rar"}
UploadPin == <<49>>
Pins == {<<>>, UploadPin}

HttpIdle ==
    /\ password = <<>> /\ wrapPw = <<>> /\ container = Nil /\ reads = <<>>
    /\ kdf = NoKdf /\ signer = Nil /\ calls = <<>>

HttpInit ==
    /\ HttpIdle
    /\ fs = HostFiles
    /\ pc = "start"
    /\ result = NoResponse
    /\ \E kind \in ArchiveKinds, suffix \in Suffixes, corrupt \in BOOLEAN, oid \in WrapCurves,
          pin \in Pins, method \in {"POST", "GET"} :
          /\ (suffix = ".rar" \/ corrupt \/ method = "GET") => (kind = "flat" /\ oid = "1.2.643.2.2.35.1")
          /\ method = "GET" => (suffix = ".zip" /\ ~corrupt /\ pin = UploadPin)
          /\ fn = [op |-> "HandleExtract", method |-> method, suffix |-> suffix,
                   corrupt |-> corrupt, pin |-> pin, kind |-> kind,
                   entries |-> Archive(kind, ContainerDir(oid, 1, 1, UploadPin, "fp", "ok")),
                   tempDir |-> <<>>, upload |-> <<>>, containerPath |-> <<>>,
                   err |-> NoErr, resp |-> NoResponse, prv |-> Nil]

\* handler_extract.go:18-53: the method is checked and the temporary directory
\* made; its removal is deferred
HandleExtractBegin ==
    /\ pc = "start" /\ fn.op = "HandleExtract"
    /\ IF fn.method # "POST"
       THEN /\ result' = Response(StatusMethodNotAllowed, "method not allowed")
            /\ pc' = "extract-done"
            /\ UNCHANGED <<fs, fn>>
       ELSE LET tempDir == Append(TempRoot, TempDirName)
            IN  /\ fs' = MkdirAll(fs, tempDir).fs
                /\ fn' = [fn EXCEPT !.tempDir = tempDir]
                /\ pc' = "tempdir"
                /\ UNCHANGED result
    /\ UNCHANGED <<password, wrapPw, container, reads, kdf, signer, calls>>

\* extractArchive (types.go:157-168) up to the reading of the archive: for a
\* zip the upload is copied to a temporary file (lines 172-187), for a tar.gz
\* the gzip reader is made (lines 235-239)
ExtractArchiveOpen ==
    /\ pc = "tempdir"
    /\ IF fn.suffix = ".zip"
       THEN LET upload == Append(TempRoot, UploadName)
            IN  /\ fs' = CreateFile(fs, upload, <<80, 75>>).fs
                /\ fn' = [fn EXCEPT !.upload = upload]
                /\ pc' = "zip"
       ELSE IF fn.suffix = ".tar.gz"
       THEN /\ IF fn.corrupt
               THEN /\ fn' = [fn EXCEPT !.err = NewError("failed to create gzip reader")]
                    /\ pc' = "returning"
               ELSE /\ pc' = "tar"
                    /\ UNCHANGED fn
            /\ UNCHANGED fs
       ELSE /\ fn' = [fn EXCEPT !.err = NewError("unsupported archive format")]
            /\ pc' = "returning"
            /\ UNCHANGED fs
    /\ UNCHANGED <<password, wrapPw, container, result, reads, kdf, signer, calls>>

\* what the unpacking leaves in the handler's locals
Unpacked(f, u) ==
    LET found == findContainerDir(u.fs, f.tempDir)
    IN  IF u.err # NoErr THEN [f EXCEPT !.err = u.err]
        ELSE IF found.err # NoErr THEN [f EXCEPT !.err = found.err]
        ELSE [f EXCEPT !.containerPath = found.dir]

\* extractZip from zip.NewReader to its return (types.go:184-232): the
\* deferred calls close and remove the temporary upload file
ExtractZipUnpack ==
    /\ pc = "zip"
    /\ LET u == IF fn.corrupt THEN [fs |-> fs, err |-> NewError("failed to open zip")]
                ELSE Unpack(fs, fn.tempDir, fn.entries, 1, FALSE)
           f == Unpacked(fn, u)
       IN  /\ fs' = Remove(u.fs, fn.upload)
           /\ fn' = f
           /\ pc' = IF f.err # NoErr THEN "returning" ELSE "unpacked"
    /\ UNCHANGED <<password, wrapPw, container, result, reads, kdf, signer, calls>>

\* extractTarGz from its loop to its return (types.go:241-286)
ExtractTarUnpack ==
    /\ pc = "tar"
    /\ LET u == Unpack(fs, fn.tempDir, fn.entries, 1, TRUE)
           f == Unpacked(fn, u)
       IN  /\ fs' = u.fs
           /\ fn' = f
           /\ pc' = IF f.err # NoErr THEN "returning" ELSE "unpacked"
    /\ UNCHANGED <<password, wrapPw, container, result, reads, kdf, signer, calls>>

\* handler_extract.go:62-97: the container is opened, the key extracted and
\* the response made
HandleExtractKey ==
    /\ pc = "unpacked"
    /\ \E order \in MapRangeOrders :
          fn' = [fn EXCEPT !.resp = ExtractResponse(fs, fn.containerPath, fn.pin, order)]
    /\ pc' = "returning"
    /\ UNCHANGED <<fs, password, wrapPw, container, result, reads, kdf, signer, calls>>

\* the handler returns: the response is the client's and the deferred
\* os.RemoveAll(tempDir) has run
HandleExtractReturn ==
    /\ pc = "returning"
    /\ result' = IF fn.err # NoErr THEN Response(StatusBadRequest, "failed to extract archive")
                 ELSE fn.resp
    /\ fs' = RemoveAll(fs, fn.tempDir)
    /\ pc' = "extract-done"
    /\ UNCHANGED <<fn, password, wrapPw, container, reads, kdf, signer, calls>>

\* the client signs with what /api/v1/extract returned: the key of the
\* response and the certificate of the response or its own
DoHandleSign ==
    /\ pc = "extract-done" /\ result.status = StatusOK
    /\ \E message \in Contents, draws \in {<<250>>}, now \in {Instant(2049, 12, 31, 23, 59, 59)} :
          \E req \in {[PrivateKeyHex |-> result.body.PrivateKeyHex,
                       CertificateB64 |-> IF result.body.CertificateBase64 # <<>>
                                          THEN result.body.CertificateBase64
                                          ELSE B64EncodeToString(Certificate("noversion")),
                       Message |-> message]} :
             \E r \in {HandleSign(req, now, draws)} :
                fn' = [fn EXCEPT !.op = "HandleSign", !.resp = r.resp, !.prv = r.prv]
    /\ pc' = "sign-done"
    /\ UNCHANGED <<fs, password, wrapPw, container, result, reads, kdf, signer, calls>>

HttpNext ==
    \/ HandleExtractBegin
    \/ ExtractArchiveOpen
    \/ ExtractZipUnpack
    \/ ExtractTarUnpack
    \/ HandleExtractKey
    \/ HandleExtractReturn
    \/ DoHandleSign

SpecHTTP == HttpInit /\ [][HttpNext]_vars

\* two curves with the same parameters
SameCurve(a, b) == a.Q = b.Q /\ a.A = b.A

\* C28: in the extract-then-sign flow the private key of HandleSign is on the
\* curve that the extraction resolved for the container (the curve_oid of the
\* /api/v1/extract response).
C28_SignsOnExtractedCurve ==
    (pc = "sign-done" /\ fn.prv # Nil) =>
        SameCurve(fn.prv.C, CurveOID[result.body.CurveOID])

\* the paths the request has added to the file system
Added == DOMAIN fs \ DOMAIN HostFiles

\* C29: once HandleExtract has made its temporary directory, on every path it
\* takes the directory and all that was unpacked into it are gone when the
\* handler has returned, and the temporary upload file of extractZip is gone
\* when extractZip has returned.
C29_TemporariesRemoved ==
    /\ [](fn.op \in {"HandleExtract", "HandleSign"} =>
            /\ pc \in {"extract-done", "sign-done"} =>
                  /\ \A q \in DOMAIN fs : fn.tempDir = <<>> \/ ~IsBeneath(q, fn.tempDir)
                  /\ fs = HostFiles
            /\ (pc \notin {"start", "tempdir", "zip"} /\ fn.upload # <<>>) => ~Exists(fs, fn.upload))
    /\ [][(pc = "tempdir" /\ pc' = "zip") => IsFile(fs', fn'.upload)]_vars
    /\ [][(pc = "start" /\ pc' = "tempdir") => IsDir(fs', fn'.tempDir)]_vars

C29_Witness ==
    /\ fn.op = "HandleExtract" /\ pc = "extract-done" /\ fn.suffix = ".zip"
    /\ fn.pin # UploadPin /\ result.status = 400 /\ fn.containerPath # <<>>
    /\ ~Exists(fs, fn.tempDir) /\ ~Exists(fs, fn.upload)

\* C30: whatever the names of the entries of the archive, extractZip and
\* extractTarGz create and write nothing outside destDir (but for the upload
\* copy that extractZip makes for itself): an entry whose cleaned name begins
\* with ".." is skipped and the others are written beneath destDir; the
\* directory that findContainerDir returns is destDir or lies in it and holds
\* header.key, and an error is returned when no header.key was unpacked.
C30_NoWriteOutsideDestDir ==
    fn.op = "HandleExtract" =>
        /\ \A q \in DOMAIN HostFiles : Exists(fs, q) /\ fs[q] = HostFiles[q]
        /\ \A q \in Added : q = fn.upload \/ (fn.tempDir # <<>> /\ IsBeneath(q, fn.tempDir))
        /\ pc = "unpacked" =>
              /\ IsBeneath(fn.containerPath, fn.tempDir)
              /\ IsFile(fs, Append(fn.containerPath, "header.key"))
              /\ fn.kind \in {"absolute", "traversal"} =>
                    /\ fn.containerPath = Append(fn.tempDir, "c")
                    /\ IsFile(fs, fn.tempDir \o <<"c", "primary.key">>)
        /\ (pc = "returning" /\ Exists(fs, fn.tempDir)) =>
              /\ (~\E q \in Added : IsFile(fs, q) /\ q[Len(q)] = "header.key") => fn.err # NoErr
              /\ (fn.kind = "rooted" /\ ~fn.corrupt /\ fn.suffix # ".rar") =>
                    IsFile(fs, fn.tempDir \o <<"etc", "passwd">>)

C30_Witness ==
    /\ fn.op = "HandleExtract" /\ pc = "unpacked" /\ fn.kind = "traversal"
    /\ fn.suffix = ".tar.gz"
    /\ IsFile(fs, fn.tempDir \o <<"c", "header.key">>)

====
